---- MODULE Spec2Model ----
(***************************************************************************)
(* A model of the scouting-report pipeline of the vetobrain backend        *)
(* (src/backend/services/analysis_service.py and the dataclasses of        *)
(* src/backend/models).                                                    *)
(*                                                                         *)
(* Numbers.  The Python code computes in binary floating point; the model  *)
(* computes the same expressions in exact rational arithmetic, a rational  *)
(* being a pair <<n, d>> with d > 0 in lowest terms.  A comparison of a    *)
(* win rate wins/total against the literals 0.70 and 0.40 has the same     *)
(* outcome in both arithmetics (division is correctly rounded and          *)
(* monotone, and no quotient of small integers lies within one ulp of the  *)
(* literal without being equal to it).                                     *)
(*                                                                         *)
(* Text.  A formatted string such as f"... ({their_wr*100:.0f}% WR)" is    *)
(* kept as the record [template |-> ..., args |-> ...] of its template and *)
(* the exact values formatted into it.                                     *)
(*                                                                         *)
(* Mappings.  A Python dict is insertion ordered; it is modelled by the    *)
(* sequence of its items in insertion order.                               *)
(***************************************************************************)
EXTENDS Integers, Sequences, FiniteSets, TLC

VARIABLES
    matches,                  \* generate_scout_report: the `matches` argument
    our_team_stats,           \* the optional `our_team_stats` argument
    report,                   \* the ScoutReport returned, NoReport before the call
    their_map_stats,          \* argument of the map-level generators called alone
    veto_recommendations,     \* result of _generate_veto_recommendations
    map_pool_matrix,          \* result of _generate_map_pool_matrix
    player_aggregates,        \* argument of the player-level functions called alone
    primary_threat,           \* result of _identify_primary_threat
    player_behavior_profiles, \* result of _generate_player_behavior_profiles
    team_composition,         \* result of _generate_team_composition
    economy_tendency,         \* result of _generate_economy_tendency
    tactical_insights,        \* result of _generate_tactical_insights
    aggregated,               \* result of _aggregate_player_stats
    now,                      \* datetime.now(), in seconds
    team_cache,               \* cache.py: team_cache._cache
    match_cache,              \* cache.py: match_cache._cache
    series_cache,             \* cache.py: series_cache._cache
    requests_sent,            \* the upstream requests of the last call, in order
    grid_result,              \* outcome of get_matches_with_stats called alone
    response,                 \* the last response of app.py, with its route and requests
    upstream,                 \* how the GRID API answers each query at present
    calls,                    \* the number of calls served
    cache,                    \* _cache of a Cache shared by threads
    lock,                     \* the thread holding its _lock, 0 when free
    threads,                  \* per thread: the operation in progress and its locals
    history                   \* the operation completed last, beside its sequential outcome

vars == <<matches, our_team_stats, report, their_map_stats, veto_recommendations,
          map_pool_matrix, player_aggregates, primary_threat,
          player_behavior_profiles, team_composition, economy_tendency,
          tactical_insights, aggregated, now, team_cache, match_cache, series_cache,
          requests_sent, grid_result, response, upstream, calls, cache, lock, threads,
          history>>

\* the state of the analysis functions called alone
analysis_vars ==
    <<matches, our_team_stats, report, their_map_stats, veto_recommendations,
      map_pool_matrix, player_aggregates, primary_threat, player_behavior_profiles,
      team_composition, economy_tendency, tactical_insights, aggregated>>

\* the state of the GRID client and of the routes of app.py
service_vars ==
    <<now, team_cache, match_cache, series_cache, requests_sent, grid_result, response,
      upstream, calls>>

\* the state of a Cache used by several threads
cache_vars == <<cache, lock, threads, history>>

\* no request has been served
ServiceIdle ==
    /\ now = 0
    /\ team_cache = <<>>
    /\ match_cache = <<>>
    /\ series_cache = <<>>
    /\ requests_sent = <<>>
    /\ grid_result = <<>>
    /\ response = <<>>
    /\ upstream = <<>>
    /\ calls = 0

\* no thread uses the shared Cache
CacheIdle ==
    /\ cache = <<>>
    /\ lock = 0
    /\ threads = <<>>
    /\ history = <<>>

\* no analysis function has been called alone
AnalysisIdle ==
    /\ matches = <<>>
    /\ our_team_stats = <<>>
    /\ report = <<>>
    /\ their_map_stats = <<>>
    /\ veto_recommendations = <<>>
    /\ map_pool_matrix = <<>>
    /\ player_aggregates = <<>>
    /\ primary_threat = <<>>
    /\ player_behavior_profiles = <<>>
    /\ team_composition = <<>>
    /\ economy_tendency = <<>>
    /\ tactical_insights = <<>>
    /\ aggregated = <<>>

-----------------------------------------------------------------------------
(* Bounds of the model *)

MaxGames == 2      \* games per map in a drawn MapStats (boundary samples are added)
MaxStats == 2      \* entries of a drawn MapStats list
MaxMatches == 3    \* length of the match sequence handed to generate_scout_report
MaxPlayers == 2    \* players of a drawn aggregate mapping
MaxCalls == 2      \* calls of the GRID client and of the routes in one behaviour
MaxOps == 3        \* operations begun on the shared Cache in one behaviour

-----------------------------------------------------------------------------
(* Exact rational arithmetic *)

Abs(x) == IF x < 0 THEN -x ELSE x

Max(a, b) == IF a >= b THEN a ELSE b

Min(a, b) == IF a <= b THEN a ELSE b

RECURSIVE GCD(_, _)
GCD(a, b) == IF b = 0 THEN a ELSE GCD(b, a % b)

\* n / d, d > 0, in lowest terms
Rat(n, d) == LET g == GCD(Abs(n), d) IN <<n \div g, d \div g>>

RInt(n) == <<n, 1>>

RAdd(a, b) == Rat(a[1] * b[2] + b[1] * a[2], a[2] * b[2])

RSub(a, b) == Rat(a[1] * b[2] - b[1] * a[2], a[2] * b[2])

RMul(a, b) == Rat(a[1] * b[1], a[2] * b[2])

\* a / b for b > 0
RDiv(a, b) == Rat(a[1] * b[2], a[2] * b[1])

RLt(a, b) == a[1] * b[2] < b[1] * a[2]

RLe(a, b) == a[1] * b[2] <= b[1] * a[2]

RGt(a, b) == RLt(b, a)

RGe(a, b) == RLe(b, a)

RMin(a, b) == IF RLe(a, b) THEN a ELSE b

RMax(a, b) == IF RGe(a, b) THEN a ELSE b

-----------------------------------------------------------------------------
(* Python built-ins *)

\* str.lower() on the names that occur as map names
Lower(s) ==
    CASE s = "Abyss" -> "abyss"
      [] s = "Bind" -> "bind"
      [] s = "Breeze" -> "breeze"
      [] s = "Corrode" -> "corrode"
      [] s = "Haven" -> "haven"
      [] s = "HAVEN" -> "haven"
      [] s = "Pearl" -> "pearl"
      [] s = "Split" -> "split"
      [] s = "Ascent" -> "ascent"
      [] s = "Lotus" -> "lotus"
      [] s = "Unknown" -> "unknown"
      [] s = "Opponent" -> "opponent"
      [] s = "OPPONENT" -> "opponent"
      [] OTHER -> s

\* list.sort(key=..., reverse=True) on a sequence of <<key, item>> pairs with
\* rational keys: descending, and stable (equal keys keep their order)
RECURSIVE InsertDesc(_, _)
InsertDesc(sorted, x) ==
    IF sorted = <<>> THEN <<x>>
    ELSE IF RLt(Head(sorted)[1], x[1]) THEN <<x>> \o sorted
    ELSE <<Head(sorted)>> \o InsertDesc(Tail(sorted), x)

RECURSIVE SortedDescFrom(_, _, _)
SortedDescFrom(sorted, keyed, i) ==
    IF i > Len(keyed) THEN sorted
    ELSE SortedDescFrom(InsertDesc(sorted, keyed[i]), keyed, i + 1)

SortDesc(keyed) ==
    LET s == SortedDescFrom(<<>>, keyed, 1)
    IN [i \in 1..Len(s) |-> s[i][2]]

\* sum(f(x) for x in seq), f given as the sequence of its values
RECURSIVE SumSeq(_)
SumSeq(s) == IF s = <<>> THEN 0 ELSE Head(s) + SumSeq(Tail(s))

-----------------------------------------------------------------------------
(* models/report.py *)

\* MapStats.win_rate
win_rate(ms) == Rat(ms.wins, Max(ms.wins + ms.losses, 1))

\* MapStats(...)
MapStats(name, games, wins, losses, rounds_won, rounds_lost) ==
    [map_name |-> name, games_played |-> games, wins |-> wins, losses |-> losses,
     avg_rounds_won |-> rounds_won, avg_rounds_lost |-> rounds_lost]

-----------------------------------------------------------------------------
(* AnalysisService: class constants *)

ALL_MAPS == <<"Abyss", "Bind", "Breeze", "Corrode", "Haven", "Pearl", "Split">>

\* Optional[Dict]: None, or a dict that may hold the key 'map_stats'
NoneStats == [none |-> TRUE, keys |-> {}, map_stats |-> <<>>]

EmptyDict == [none |-> FALSE, keys |-> {}, map_stats |-> <<>>]

StatsDict(list) == [none |-> FALSE, keys |-> {"map_stats"}, map_stats |-> list]

\* dict built by a comprehension over a MapStats list keyed by the lowered name:
\* a later item overwrites an earlier one with the same key; 0 when the key is absent
RECURSIVE LastIndexFrom(_, _, _)
LastIndexFrom(stats, key, i) ==
    IF i = 0 THEN 0
    ELSE IF Lower(stats[i].map_name) = key THEN i
    ELSE LastIndexFrom(stats, key, i - 1)

LastIndex(stats, key) == LastIndexFrom(stats, key, Len(stats))

\* the demo-mode "our" rates of _generate_veto_recommendations
DemoOurRate(key) ==
    CASE key = "haven" -> Rat(72, 100)
      [] key = "bind" -> Rat(58, 100)
      [] key = "breeze" -> Rat(48, 100)
      [] key = "pearl" -> Rat(60, 100)
      [] key = "split" -> Rat(45, 100)
      [] key = "abyss" -> Rat(53, 100)
      [] key = "corrode" -> Rat(55, 100)
      [] OTHER -> Rat(1, 2)

\* a variant of OurRate that falls back to the baseline for a map that the
\* supplied stats do not list
OurRate_baseline_for_unlisted(our, key) ==
    IF ~our.none /\ our.keys # {} /\ "map_stats" \in our.keys
    THEN LET i == LastIndex(our.map_stats, key)
         IN IF i = 0 THEN DemoOurRate(key) ELSE win_rate(our.map_stats[i])
    ELSE DemoOurRate(key)

\* our_rates.get(map_name.lower(), 0.5)
OurRate(our, key) ==
    IF ~our.none /\ our.keys # {} /\ "map_stats" \in our.keys
    THEN LET i == LastIndex(our.map_stats, key)
         IN IF i = 0 THEN Rat(1, 2) ELSE win_rate(our.map_stats[i])
    ELSE DemoOurRate(key)

\* their_rates.get(map_name.lower(), 0.5)
TheirRate(their, key) ==
    LET i == LastIndex(their, key)
    IN IF i = 0 THEN Rat(1, 2) ELSE win_rate(their[i])

\* their_games.get(map_name.lower(), 0)
TheirGames(their, key) ==
    LET i == LastIndex(their, key)
    IN IF i = 0 THEN 0 ELSE their[i].games_played

\* a variant of VetoScore without the small-sample penalty
VetoScore_without_penalty(our_wr, their_wr, their_gp) ==
    RSub(RMul(our_wr, Rat(1, 2)), RMul(their_wr, Rat(1, 2)))

\* the differential score with the small-sample penalty
VetoScore(our_wr, their_wr, their_gp) ==
    LET raw == RSub(RMul(our_wr, Rat(1, 2)), RMul(their_wr, Rat(1, 2)))
    IN IF their_gp < 3 THEN RMul(raw, Rat(8, 10)) ELSE raw

\* a variant of strong_map that asks for three games
strong_map_three_games(their_wr, their_gp) ==
    RGe(their_wr, Rat(70, 100)) /\ their_gp >= 3

strong_map(their_wr, their_gp) == RGe(their_wr, Rat(70, 100)) /\ their_gp >= 2

\* a variant of weak_map that leaves out a win rate of exactly 0.40
weak_map_strict(their_wr, their_gp) == RLt(their_wr, Rat(40, 100)) /\ their_gp >= 2

weak_map(their_wr, their_gp) == RLe(their_wr, Rat(40, 100)) /\ their_gp >= 2

\* the category and reason chosen by the guardrails, then the differential
VetoDecision(score, their_wr, their_gp) ==
    LET pct == RMul(their_wr, RInt(100)) IN
    IF strong_map(their_wr, their_gp)
    THEN IF RLe(score, Rat(-15, 100))
         THEN [rec |-> "MUST_BAN",
               reason |-> [template |-> "They dominate this map ({:.0f}% WR)",
                           args |-> <<pct>>]]
         ELSE [rec |-> "BAN",
               reason |-> [template |-> "Opponent-strong map ({:.0f}% WR)",
                           args |-> <<pct>>]]
    ELSE IF weak_map(their_wr, their_gp)
    THEN IF RGe(score, Rat(15, 100))
         THEN [rec |-> "MUST_PICK",
               reason |-> [template |-> "Clear advantage", args |-> <<>>]]
         ELSE [rec |-> "PICK",
               reason |-> [template |-> "They struggle here", args |-> <<>>]]
    ELSE IF RGe(score, Rat(15, 100))
         THEN [rec |-> "MUST_PICK",
               reason |-> [template |-> "Strong advantage (+{:.0f}%)",
                           args |-> <<RMul(score, RInt(100))>>]]
    ELSE IF RGe(score, Rat(5, 100))
         THEN [rec |-> "PICK",
               reason |-> [template |-> "Slight advantage", args |-> <<>>]]
    ELSE IF RLe(score, Rat(-15, 100))
         THEN [rec |-> "MUST_BAN",
               reason |-> [template |-> "They have a significant edge ({:.0f}% WR)",
                           args |-> <<pct>>]]
    ELSE IF RLe(score, Rat(-5, 100))
         THEN [rec |-> "BAN",
               reason |-> [template |-> "They have an edge here", args |-> <<>>]]
    ELSE [rec |-> "NEUTRAL",
          reason |-> [template |-> "Even matchup - decider potential", args |-> <<>>]]

\* the VetoRecommendation appended for one map of ALL_MAPS
VetoFor(map_name, their, our) ==
    LET key == Lower(map_name)
        our_wr == OurRate(our, key)
        their_wr == TheirRate(their, key)
        their_gp == TheirGames(their, key)
        score == VetoScore(our_wr, their_wr, their_gp)
        d == VetoDecision(score, their_wr, their_gp)
    IN [map_name |-> map_name, score |-> score, recommendation |-> d.rec,
        our_win_rate |-> our_wr, their_win_rate |-> their_wr, reason |-> d.reason]

\* a variant of _generate_veto_recommendations without the final sort
_generate_veto_recommendations_unsorted(their, our) ==
    [i \in 1..Len(ALL_MAPS) |-> VetoFor(ALL_MAPS[i], their, our)]

_generate_veto_recommendations(their, our) ==
    LET recs == [i \in 1..Len(ALL_MAPS) |-> VetoFor(ALL_MAPS[i], their, our)]
    IN SortDesc([i \in 1..Len(recs) |-> <<recs[i].score, recs[i]>>])

\* a variant of MatrixEntryFor that estimates attack and defense from the win
\* rate whether or not rounds were recorded
MatrixEntryFor_always_estimated(map_name, map_stats) ==
    LET i == LastIndex(map_stats, Lower(map_name)) IN
    IF i # 0
    THEN LET ms == map_stats[i]
         IN [map_name |-> map_name,
             games_played |-> ms.games_played,
             win_rate |-> win_rate(ms),
             attack_win_rate |-> RMin(RMul(win_rate(ms), Rat(9, 10)), RInt(1)),
             defense_win_rate |-> RMin(RMul(win_rate(ms), Rat(11, 10)), RInt(1)),
             avg_round_diff |-> RSub(ms.avg_rounds_won, ms.avg_rounds_lost)]
    ELSE [map_name |-> map_name, games_played |-> 0, win_rate |-> RInt(0),
          attack_win_rate |-> RInt(0), defense_win_rate |-> RInt(0),
          avg_round_diff |-> RInt(0)]

\* the MapPoolEntry appended for one map of ALL_MAPS
MatrixEntryFor(map_name, map_stats) ==
    LET i == LastIndex(map_stats, Lower(map_name)) IN
    IF i # 0
    THEN LET ms == map_stats[i]
             total_rounds == RAdd(ms.avg_rounds_won, ms.avg_rounds_lost)
             scored == RGt(total_rounds, RInt(0))
         IN [map_name |-> map_name,
             games_played |-> ms.games_played,
             win_rate |-> win_rate(ms),
             attack_win_rate |->
                 IF scored THEN RMin(RMul(win_rate(ms), Rat(9, 10)), RInt(1))
                 ELSE Rat(1, 2),
             defense_win_rate |->
                 IF scored THEN RMin(RMul(win_rate(ms), Rat(11, 10)), RInt(1))
                 ELSE Rat(1, 2),
             avg_round_diff |-> RSub(ms.avg_rounds_won, ms.avg_rounds_lost)]
    ELSE [map_name |-> map_name, games_played |-> 0, win_rate |-> RInt(0),
          attack_win_rate |-> RInt(0), defense_win_rate |-> RInt(0),
          avg_round_diff |-> RInt(0)]

\* a variant of _generate_map_pool_matrix without the final sort
_generate_map_pool_matrix_unsorted(map_stats) ==
    [i \in 1..Len(ALL_MAPS) |-> MatrixEntryFor(ALL_MAPS[i], map_stats)]

_generate_map_pool_matrix(map_stats) ==
    LET matrix == [i \in 1..Len(ALL_MAPS) |-> MatrixEntryFor(ALL_MAPS[i], map_stats)]
    IN SortDesc([i \in 1..Len(matrix) |-> <<matrix[i].win_rate, matrix[i]>>])

-----------------------------------------------------------------------------
(* Text built by f-strings and string literals *)

Text(template, args) == [template |-> template, args |-> args]

Plain(s) == Text(s, <<>>)

-----------------------------------------------------------------------------
(* Dict helpers: a dict is the sequence of its <<key, value>> items *)

RECURSIVE IndexOfKey(_, _, _)
IndexOfKey(d, k, i) ==
    IF i > Len(d) THEN 0
    ELSE IF d[i][1] = k THEN i
    ELSE IndexOfKey(d, k, i + 1)

\* d.get(k, 0) for a dict of counts
Count(d, k) == LET i == IndexOfKey(d, k, 1) IN IF i = 0 THEN 0 ELSE d[i][2]

\* d[k] += n on a defaultdict(int)
DictAdd(d, k, n) ==
    LET i == IndexOfKey(d, k, 1)
    IN IF i = 0 THEN Append(d, <<k, n>>)
       ELSE [d EXCEPT ![i] = <<k, d[i][2] + n>>]

\* sum(d.values())
RECURSIVE SumValues(_)
SumValues(d) == IF d = <<>> THEN 0 ELSE Head(d)[2] + SumValues(Tail(d))

\* max(d.items(), key=lambda x: x[1])[0]: the first key of maximal count
RECURSIVE FirstMaxFrom(_, _, _)
FirstMaxFrom(d, best, i) ==
    IF i > Len(d) THEN best
    ELSE FirstMaxFrom(d, IF d[i][2] > d[best][2] THEN i ELSE best, i + 1)

TopKey(d) == d[FirstMaxFrom(d, 1, 2)][1]

\* [k for k, _ in sorted(d.items(), key=lambda x: x[1], reverse=True)[:n]]
TopKeys(d, n) ==
    LET s == SortDesc([i \in 1..Len(d) |-> <<RInt(d[i][2]), d[i][1]>>])
    IN SubSeq(s, 1, Min(n, Len(s)))

-----------------------------------------------------------------------------
(* AnalysisService: aggregation.  A Match is the record of the fields the   *)
(* service reads: series_id, match_date (<<>> for None, else <<y, m, d>>),  *)
(* map_name, team_score, opponent_score, won, player_stats.                 *)

\* the defaultdict's fresh entry of _aggregate_player_stats
NewPlayerData(pid) ==
    [pid |-> pid, name |-> "", games |-> 0, total_kills |-> 0, total_deaths |-> 0,
     total_assists |-> 0, total_acs |-> 0, total_adr |-> 0,
     total_first_bloods |-> 0, total_first_deaths |-> 0,
     agents |-> <<>>, agent_wins |-> <<>>]

\* the body of the inner loop of _aggregate_player_stats
AddPlayerStat(data, ps, won) ==
    [data EXCEPT
        !.name = ps.player_name,
        !.games = @ + 1,
        !.total_kills = @ + ps.kills,
        !.total_deaths = @ + ps.deaths,
        !.total_assists = @ + ps.assists,
        !.total_acs = @ + ps.acs,
        !.total_adr = @ + ps.adr,
        !.total_first_bloods = @ + ps.first_bloods,
        !.total_first_deaths = @ + ps.first_deaths,
        !.agents = DictAdd(@, ps.agent, 1),
        !.agent_wins = IF won THEN DictAdd(@, ps.agent, 1) ELSE @]

RECURSIVE IndexOfPid(_, _, _)
IndexOfPid(players, pid, i) ==
    IF i > Len(players) THEN 0
    ELSE IF players[i].pid = pid THEN i
    ELSE IndexOfPid(players, pid, i + 1)

\* a variant of PlayerKey that keys every record by its identifier
PlayerKey_identifier_only(ps) == ps.player_id

\* player_stat.player_id or player_stat.player_name
PlayerKey(ps) == IF ps.player_id # "" THEN ps.player_id ELSE ps.player_name

FoldPlayerStat(players, ps, won) ==
    LET pid == PlayerKey(ps)
        i == IndexOfPid(players, pid, 1)
    IN IF i = 0 THEN Append(players, AddPlayerStat(NewPlayerData(pid), ps, won))
       ELSE [players EXCEPT ![i] = AddPlayerStat(@, ps, won)]

RECURSIVE FoldPlayerStats(_, _, _, _)
FoldPlayerStats(players, stats, won, j) ==
    IF j > Len(stats) THEN players
    ELSE FoldPlayerStats(FoldPlayerStat(players, stats[j], won), stats, won, j + 1)

RECURSIVE AggregateFrom(_, _, _)
AggregateFrom(players, ms, i) ==
    IF i > Len(ms) THEN players
    ELSE AggregateFrom(FoldPlayerStats(players, ms[i].player_stats, ms[i].won, 1),
                       ms, i + 1)

_aggregate_player_stats(ms) == AggregateFrom(<<>>, ms, 1)

\* a variant of MapKey without the "Unknown" default
MapKeyAsGiven(m) == m.map_name

\* match.map_name or "Unknown"
MapKey(m) == IF m.map_name # "" THEN m.map_name ELSE "Unknown"

RECURSIVE IndexOfMap(_, _, _)
IndexOfMap(map_data, name, i) ==
    IF i > Len(map_data) THEN 0
    ELSE IF map_data[i].map_name = name THEN i
    ELSE IndexOfMap(map_data, name, i + 1)

\* a variant of AddMatchToMap that counts a loss only when rounds were lost
AddMatchToMapByRounds(data, m) ==
    [data EXCEPT
        !.games = @ + 1,
        !.wins = IF m.won THEN @ + 1 ELSE @,
        !.losses = IF m.opponent_score > m.team_score THEN @ + 1 ELSE @,
        !.rounds_won = @ + m.team_score,
        !.rounds_lost = @ + m.opponent_score]

\* the body of the first loop of _analyze_map_performance
AddMatchToMap(data, m) ==
    [data EXCEPT
        !.games = @ + 1,
        !.wins = IF m.won THEN @ + 1 ELSE @,
        !.losses = IF m.won THEN @ ELSE @ + 1,
        !.rounds_won = @ + m.team_score,
        !.rounds_lost = @ + m.opponent_score]

NewMapData(name) ==
    [map_name |-> name, games |-> 0, wins |-> 0, losses |-> 0,
     rounds_won |-> 0, rounds_lost |-> 0]

RECURSIVE MapDataFrom(_, _, _)
MapDataFrom(map_data, ms, i) ==
    IF i > Len(ms) THEN map_data
    ELSE LET name == MapKey(ms[i])
             k == IndexOfMap(map_data, name, 1)
         IN MapDataFrom(
                IF k = 0 THEN Append(map_data, AddMatchToMap(NewMapData(name), ms[i]))
                ELSE [map_data EXCEPT ![k] = AddMatchToMap(@, ms[i])],
                ms, i + 1)

\* the MapStats built from one entry of map_data
MapStatsOf(data) ==
    MapStats(data.map_name, data.games, data.wins, data.losses,
             Rat(data.rounds_won, Max(data.games, 1)),
             Rat(data.rounds_lost, Max(data.games, 1)))

_analyze_map_performance(ms) ==
    LET map_data == MapDataFrom(<<>>, ms, 1)
        kept == SelectSeq(map_data, LAMBDA d : d.map_name # "Unknown")
        stats == [i \in 1..Len(kept) |-> MapStatsOf(kept[i])]
    IN SortDesc([i \in 1..Len(stats) |-> <<win_rate(stats[i]), stats[i]>>])

\* get_team_map_stats
get_team_map_stats(ms) ==
    IF ms = <<>> THEN EmptyDict ELSE StatsDict(_analyze_map_performance(ms))

-----------------------------------------------------------------------------
(* AnalysisService: class constants and tables *)

Duelists == {"Jett", "Raze", "Reyna", "Phoenix", "Yoru", "Neon", "Iso"}

Controllers == {"Omen", "Brimstone", "Viper", "Astra", "Harbor", "Clove"}

Sentinels == {"Killjoy", "Cypher", "Sage", "Chamber", "Deadlock", "Vyse"}

Initiators == {"Sova", "Breach", "Skye", "KAY/O", "Fade", "Gekko"}

\* AGENT_ROLES.get(agent, 'Unknown')
AGENT_ROLES(agent) ==
    IF agent \in Duelists THEN "Duelist"
    ELSE IF agent \in Controllers THEN "Controller"
    ELSE IF agent \in Sentinels THEN "Sentinel"
    ELSE IF agent \in Initiators THEN "Initiator"
    ELSE "Unknown"

\* AGENT_PLAYSTYLES.get(agent, [])
AGENT_PLAYSTYLES(agent) ==
    CASE agent = "Jett" -> <<"Entry Fragger", "Op Player", "Space Creator">>
      [] agent = "Raze" -> <<"Entry Fragger", "Site Clearer", "Utility Damage">>
      [] agent = "Reyna" -> <<"Entry Fragger", "Self-Sufficient", "Clutch Player">>
      [] agent = "Neon" -> <<"Entry Fragger", "Fast Executes", "Space Creator">>
      [] agent = "Phoenix" -> <<"Entry Fragger", "Self-Sufficient", "Flash Player">>
      [] agent = "Yoru" -> <<"Lurker", "Flanker", "Mind Games">>
      [] agent = "Omen" -> <<"Lurker", "Flanker", "Creative Plays">>
      [] agent = "Cypher" -> <<"Lurker", "Info Gatherer", "Flank Watch">>
      [] agent = "Killjoy" -> <<"Anchor", "Site Holder", "Post-Plant">>
      [] agent = "Sage" -> <<"Anchor", "Support", "Healer">>
      [] agent = "Deadlock" -> <<"Anchor", "Site Holder", "Trap Player">>
      [] agent = "Vyse" -> <<"Anchor", "Site Holder", "Area Denial">>
      [] agent = "Sova" -> <<"Support", "Info Gatherer", "Post-Plant">>
      [] agent = "Fade" -> <<"Support", "Info Gatherer", "Entry Support">>
      [] agent = "Skye" -> <<"Support", "Entry Support", "Healer">>
      [] agent = "Breach" -> <<"Support", "Entry Support", "Flash Player">>
      [] agent = "KAY/O" -> <<"Support", "Entry Support", "Suppression">>
      [] agent = "Gekko" -> <<"Support", "Entry Support", "Utility Recycle">>
      [] agent = "Chamber" -> <<"Op Player", "Anchor", "Clutch Player">>
      [] agent = "Iso" -> <<"Entry Fragger", "Duelist", "1v1 Specialist">>
      [] agent = "Viper" -> <<"Anchor", "Post-Plant", "Site Controller">>
      [] agent = "Brimstone" -> <<"Support", "Post-Plant", "Execute Caller">>
      [] agent = "Astra" -> <<"Support", "Global Control", "Big Brain">>
      [] agent = "Harbor" -> <<"Support", "Site Controller", "Fast Executes">>
      [] agent = "Clove" -> <<"Support", "Self-Sufficient", "Aggro Smoke">>
      [] OTHER -> <<>>

\* AGENT_SITE_PREFERENCE.get(agent, 'Flex')
AGENT_SITE_PREFERENCE(agent) ==
    CASE agent \in {"Chamber", "Sova"} -> "A"
      [] agent \in {"Killjoy", "Cypher", "Raze"} -> "B"
      [] agent = "Omen" -> "Mid"
      [] OTHER -> "Flex"

-----------------------------------------------------------------------------
(* Per-player averages, as every function below computes them *)

\* data['total_acs'] / data['games'], for games > 0
AvgAcs(data) == Rat(data.total_acs, data.games)

\* data['total_kills'] / max(data['total_deaths'], 1)
AvgKd(data) == Rat(data.total_kills, Max(data.total_deaths, 1))

\* total_first_bloods / max(total_first_bloods + total_first_deaths, 1)
FbRate(data) ==
    Rat(data.total_first_bloods,
        Max(data.total_first_bloods + data.total_first_deaths, 1))

\* max(agents.items(), key=...)[0] if agents else "Unknown"
TopAgent(data) == IF data.agents # <<>> THEN TopKey(data.agents) ELSE "Unknown"

\* index of the first element of a non-empty sequence of rationals that is maximal
RECURSIVE FirstMaxRatFrom(_, _, _)
FirstMaxRatFrom(keys, best, i) ==
    IF i > Len(keys) THEN best
    ELSE FirstMaxRatFrom(keys, IF RGt(keys[i], keys[best]) THEN i ELSE best, i + 1)

FirstMaxRat(keys) == FirstMaxRatFrom(keys, 1, 2)

\* index of the first element of a non-empty sequence of rationals that is minimal
RECURSIVE FirstMinRatFrom(_, _, _)
FirstMinRatFrom(keys, best, i) ==
    IF i > Len(keys) THEN best
    ELSE FirstMinRatFrom(keys, IF RLt(keys[i], keys[best]) THEN i ELSE best, i + 1)

FirstMinRat(keys) == FirstMinRatFrom(keys, 1, 2)

-----------------------------------------------------------------------------
(* AnalysisService._identify_primary_threat *)

ThreatScore(data) ==
    RAdd(RAdd(RMul(RDiv(AvgAcs(data), RInt(300)), Rat(4, 10)),
              RMul(AvgKd(data), Rat(3, 10))),
         RMul(FbRate(data), Rat(3, 10)))

ThreatReason(top) ==
    IF RGt(FbRate(top), Rat(6, 10)) THEN "aggressive opener"
    ELSE IF RGt(AvgAcs(top), RInt(250)) THEN "high impact"
    ELSE "key player"

\* a variant of _identify_primary_threat that takes the last of the sorted
\* players with the top score
_identify_primary_threat_last_of_ties(players) ==
    IF players = <<>>
    THEN [label |-> Plain("Unknown Threat"), reason |-> "insufficient data"]
    ELSE LET scored == SelectSeq(players, LAMBDA d : d.games # 0) IN
         IF scored = <<>>
         THEN [label |-> Plain("Unknown Threat"), reason |-> "no player data"]
         ELSE LET sorted == SortDesc([i \in 1..Len(scored) |->
                                         <<ThreatScore(scored[i]), scored[i]>>])
                  ties == {i \in 1..Len(sorted) :
                              ThreatScore(sorted[i]) = ThreatScore(sorted[1])}
                  top == sorted[CHOOSE i \in ties : \A j \in ties : j <= i]
              IN [label |-> Text("{} ({})", <<top.name, TopAgent(top)>>),
                  reason |-> ThreatReason(top)]

\* a variant of _identify_primary_threat with one fallback pair for both cases
_identify_primary_threat_one_fallback(players) ==
    LET scored == SelectSeq(players, LAMBDA d : d.games # 0) IN
    IF scored = <<>>
    THEN [label |-> Plain("Unknown Threat"), reason |-> "insufficient data"]
    ELSE LET sorted == SortDesc([i \in 1..Len(scored) |->
                                    <<ThreatScore(scored[i]), scored[i]>>])
             top == sorted[1]
         IN [label |-> Text("{} ({})", <<top.name, TopAgent(top)>>),
             reason |-> ThreatReason(top)]

_identify_primary_threat(players) ==
    IF players = <<>>
    THEN [label |-> Plain("Unknown Threat"), reason |-> "insufficient data"]
    ELSE LET scored == SelectSeq(players, LAMBDA d : d.games # 0) IN
         IF scored = <<>>
         THEN [label |-> Plain("Unknown Threat"), reason |-> "no player data"]
         ELSE LET sorted == SortDesc([i \in 1..Len(scored) |->
                                         <<ThreatScore(scored[i]), scored[i]>>])
                  top == sorted[1]
              IN [label |-> Text("{} ({})", <<top.name, TopAgent(top)>>),
                  reason |-> ThreatReason(top)]

-----------------------------------------------------------------------------
(* AnalysisService._generate_player_stats *)

Impact(avg_acs) ==
    IF RGe(avg_acs, RInt(250)) THEN "High"
    ELSE IF RGe(avg_acs, RInt(200)) THEN "Medium"
    ELSE "Low"

PlayerStatsOf(data) ==
    [name |-> data.name, top_agents |-> TopKeys(data.agents, 3),
     impact |-> Impact(AvgAcs(data)), avg_acs |-> AvgAcs(data),
     avg_kd |-> AvgKd(data), first_blood_rate |-> FbRate(data),
     games_played |-> data.games]

_generate_player_stats(players) ==
    LET played == SelectSeq(players, LAMBDA d : d.games # 0)
        stats == [i \in 1..Len(played) |-> PlayerStatsOf(played[i])]
    IN SortDesc([i \in 1..Len(stats) |-> <<stats[i].avg_acs, stats[i]>>])

-----------------------------------------------------------------------------
(* AnalysisService: summary helpers *)

\* _get_recommended_bans(map_stats, num_bans=2)
RECURSIVE BansFrom(_, _, _, _)
BansFrom(bans, map_stats, i, num_bans) ==
    IF i > Len(map_stats) \/ Len(bans) >= num_bans THEN bans
    ELSE BansFrom(IF map_stats[i].games_played >= 2
                  THEN Append(bans, map_stats[i].map_name) ELSE bans,
                  map_stats, i + 1, num_bans)

RECURSIVE PadTBD(_, _)
PadTBD(bans, num_bans) ==
    IF Len(bans) < num_bans THEN PadTBD(Append(bans, "TBD"), num_bans) ELSE bans

_get_recommended_bans(map_stats) == PadTBD(BansFrom(<<>>, map_stats, 1, 2), 2)

\* _calculate_recent_form: the results of the first 5 distinct series
RECURSIVE FormResults(_, _, _, _)
FormResults(results, seen, ms, i) ==
    IF i > Len(ms) \/ Len(results) >= 5 THEN results
    ELSE IF ms[i].series_id \in seen THEN FormResults(results, seen, ms, i + 1)
    ELSE FormResults(Append(results, ms[i].won), seen \cup {ms[i].series_id},
                     ms, i + 1)

_calculate_recent_form(ms) ==
    LET results == FormResults(<<>>, {}, ms, 1)
        w == Len(SelectSeq(results, LAMBDA r : r))
    IN IF results = <<>> THEN Plain("No recent data")
       ELSE Text("{}W-{}L in last {}", <<w, Len(results) - w, Len(results)>>)

\* sum over the players of the picks of the agents of a role set
RECURSIVE PicksIn(_, _)
PicksIn(agents, role_set) ==
    IF agents = <<>> THEN 0
    ELSE (IF Head(agents)[1] \in role_set THEN Head(agents)[2] ELSE 0)
         + PicksIn(Tail(agents), role_set)

TeamPicksIn(players, role_set) ==
    SumSeq([i \in 1..Len(players) |-> PicksIn(players[i].agents, role_set)])

TotalFirstBloods(players) ==
    SumSeq([i \in 1..Len(players) |-> players[i].total_first_bloods])

TotalFirstDeaths(players) ==
    SumSeq([i \in 1..Len(players) |-> players[i].total_first_deaths])

\* total_fb / max(total_fd, 1)
FbRatio(players) ==
    Rat(TotalFirstBloods(players), Max(TotalFirstDeaths(players), 1))

_analyze_playstyle(players, ms) ==
    LET d_count == TeamPicksIn(players, Duelists)
        c_count == TeamPicksIn(players, Controllers)
        s_count == TeamPicksIn(players, Sentinels)
        fb_ratio == FbRatio(players)
    IN IF RGt(fb_ratio, Rat(12, 10)) /\ d_count > c_count
       THEN "Aggressive duelist-focused"
       ELSE IF s_count > d_count THEN "Defensive utility-heavy"
       ELSE IF c_count > d_count THEN "Methodical execute-style"
       ELSE IF RGt(fb_ratio, Rat(11, 10)) THEN "Early aggression focused"
       ELSE "Balanced approach"

\* _generate_key_takeaway: bans[:2] stands for its " and ".join; the tests
\* "Aggressive" in playstyle and "Defensive" in playstyle each hold of exactly one
\* of the five labels _analyze_playstyle returns
_generate_key_takeaway(team_name, threat, playstyle, bans) ==
    LET bans_str == IF bans # <<>> THEN SubSeq(bans, 1, Min(2, Len(bans)))
                    ELSE <<"their comfort maps">>
    IN IF playstyle \in {"Aggressive duelist-focused"}
       THEN Text("{} plays aggressively around {}. Ban {} and force late-round engagements.",
                 <<team_name, threat, bans_str>>)
       ELSE IF playstyle \in {"Defensive utility-heavy"}
       THEN Text("{} relies on defensive setups. Ban {} and prepare fast executes.",
                 <<team_name, bans_str>>)
       ELSE Text("{} has a balanced approach with {} as key threat. Ban {}.",
                 <<team_name, threat, bans_str>>)

\* dates are <<year, month, day>>; a < b
DateLt(a, b) ==
    \/ a[1] < b[1]
    \/ a[1] = b[1] /\ a[2] < b[2]
    \/ a[1] = b[1] /\ a[2] = b[2] /\ a[3] < b[3]

RECURSIVE MinDate(_)
MinDate(dates) ==
    IF Len(dates) = 1 THEN dates[1]
    ELSE LET r == MinDate(Tail(dates))
         IN IF DateLt(r, Head(dates)) THEN r ELSE Head(dates)

RECURSIVE MaxDate(_)
MaxDate(dates) ==
    IF Len(dates) = 1 THEN dates[1]
    ELSE LET r == MaxDate(Tail(dates))
         IN IF DateLt(Head(dates), r) THEN r ELSE Head(dates)

_get_date_range(ms) ==
    LET with_date == SelectSeq(ms, LAMBDA m : m.match_date # <<>>)
        dates == [i \in 1..Len(with_date) |-> with_date[i].match_date]
    IN IF dates = <<>> THEN Plain("Date range unavailable")
       ELSE IF MinDate(dates)[1] = MaxDate(dates)[1]
       THEN Text("{%b %d} - {%b %d, %Y}", <<MinDate(dates), MaxDate(dates)>>)
       ELSE Text("{%b %d, %Y} - {%b %d, %Y}", <<MinDate(dates), MaxDate(dates)>>)

-----------------------------------------------------------------------------
(* AnalysisService._generate_tactical_insights *)

Insight(category, title, description, severity, icon) ==
    [category |-> category, title |-> title, description |-> description,
     severity |-> severity, icon |-> icon]

TotalKills(players) == SumSeq([i \in 1..Len(players) |-> players[i].total_kills])

TotalDeaths(players) == SumSeq([i \in 1..Len(players) |-> players[i].total_deaths])

\* total_kills / max(total_deaths, 1)
TeamKd(players) == Rat(TotalKills(players), Max(TotalDeaths(players), 1))

\* TEMPLATE 1: team aggression based on K/D
InsightAggression(players) ==
    LET team_kd == TeamKd(players) IN
    IF RGt(team_kd, Rat(115, 100))
    THEN <<Insight("OPENING", Plain("High Fragging Team"),
                   Text("Team K/D of {:.2f} indicates strong mechanical skill. Expect confident aim duels. Use utility to avoid dry peeks.",
                        <<team_kd>>),
                   "WARNING", "!")>>
    ELSE IF RLt(team_kd, Rat(95, 100))
    THEN <<Insight("OPENING", Plain("Vulnerable to Aggression"),
                   Text("Team K/D of {:.2f} suggests they struggle in duels. Apply early pressure and take aim fights.",
                        <<team_kd>>),
                   "TIP", "+")>>
    ELSE <<>>

\* max(player_aggregates.values(), key=total_acs / max(games, 1)), players non-empty
StarPlayer(players) ==
    players[FirstMaxRat([i \in 1..Len(players) |->
                            Rat(players[i].total_acs, Max(players[i].games, 1))])]

\* TEMPLATE 2: star player dependency
InsightStarPlayer(players) ==
    IF players = <<>> THEN <<>>
    ELSE LET star == StarPlayer(players) IN
         IF star.games > 0 /\ RGt(AvgAcs(star), RInt(270))
         THEN <<Insight("KEY_PLAYER", Text("Neutralize {}", <<star.name>>),
                        Text("{} averages {:.0f} ACS on {}. Dedicate utility to shut them down early. If they're quiet, the team struggles.",
                             <<star.name, AvgAcs(star), TopAgent(star)>>),
                        "WARNING", "*")>>
         ELSE <<>>

\* a variant of InsightWeakMap that names the first of the weak maps
InsightWeakMap_first_listed(map_stats) ==
    LET weak_maps == SelectSeq(map_stats,
                         LAMBDA ms : RLt(win_rate(ms), Rat(4, 10)) /\ ms.games_played >= 2)
    IN IF weak_maps = <<>> THEN <<>>
       ELSE LET weakest == weak_maps[1]
            IN <<Insight("MAP_POOL", Text("Exploit {}", <<weakest.map_name>>),
                         Text("Only {:.0f}% win rate on {}. Force this map in veto if possible.",
                              <<RMul(win_rate(weakest), RInt(100)), weakest.map_name>>),
                         "TIP", ">")>>

\* TEMPLATE 3: map pool weakness
InsightWeakMap(map_stats) ==
    LET weak_maps == SelectSeq(map_stats,
                         LAMBDA ms : RLt(win_rate(ms), Rat(4, 10)) /\ ms.games_played >= 2)
    IN IF weak_maps = <<>> THEN <<>>
       ELSE LET weakest == weak_maps[FirstMinRat([i \in 1..Len(weak_maps) |->
                                                     win_rate(weak_maps[i])])]
            IN <<Insight("MAP_POOL", Text("Exploit {}", <<weakest.map_name>>),
                         Text("Only {:.0f}% win rate on {}. Force this map in veto if possible.",
                              <<RMul(win_rate(weakest), RInt(100)), weakest.map_name>>),
                         "TIP", ">")>>

\* TEMPLATE 4: strong map warning
InsightStrongMap(map_stats) ==
    LET strong_maps == SelectSeq(map_stats,
                           LAMBDA ms : RGt(win_rate(ms), Rat(7, 10)) /\ ms.games_played >= 2)
    IN IF strong_maps = <<>> THEN <<>>
       ELSE LET strongest == strong_maps[FirstMaxRat([i \in 1..Len(strong_maps) |->
                                                         win_rate(strong_maps[i])])]
            IN <<Insight("MAP_POOL", Text("Avoid {}", <<strongest.map_name>>),
                         Text("They have a {:.0f}% win rate on {}. Must ban unless you have a specific counter-strat.",
                              <<RMul(win_rate(strongest), RInt(100)), strongest.map_name>>),
                         "WARNING", "X")>>

\* all_agents: the picks of every agent over all players, in first-seen order
RECURSIVE AddAgents(_, _)
AddAgents(all, agents) ==
    IF agents = <<>> THEN all
    ELSE AddAgents(DictAdd(all, Head(agents)[1], Head(agents)[2]), Tail(agents))

RECURSIVE AllAgentsFrom(_, _, _)
AllAgentsFrom(all, players, i) ==
    IF i > Len(players) THEN all
    ELSE AllAgentsFrom(AddAgents(all, players[i].agents), players, i + 1)

AllAgents(players) == AllAgentsFrom(<<>>, players, 1)

\* TEMPLATE 5: agent pool analysis
InsightDuelistHeavy(players) ==
    LET all_agents == AllAgents(players)
        duelist_picks == PicksIn(all_agents, Duelists)
        total_picks == SumValues(all_agents)
    IN IF total_picks > 0 /\ RGt(Rat(duelist_picks, Max(total_picks, 1)), Rat(35, 100))
       THEN <<Insight("COMPOSITION", Plain("Duelist Heavy Comp"),
                      Plain("They run multiple duelists frequently. Expect aggressive dry peeks and trade-focused plays. Stack utility for retakes."),
                      "INFO", "!")>>
       ELSE <<>>

\* [m for m in matches if abs(m.team_score - m.opponent_score) <= 3]
CloseGames(ms) == SelectSeq(ms, LAMBDA m : Abs(m.team_score - m.opponent_score) <= 3)

\* TEMPLATE 6: close games analysis; len(close_games) > len(matches) * 0.4
InsightCloseGames(ms) ==
    IF RGt(RInt(Len(CloseGames(ms))), RMul(RInt(Len(ms)), Rat(4, 10)))
    THEN <<Insight("MENTAL", Plain("Clutch Situations"),
                   Plain("Many of their games go to overtime or close finishes. They're dangerous in high-pressure situations - don't let rounds drag."),
                   "INFO", "~")>>
    ELSE <<>>

TotalRoundsWon(ms) == SumSeq([i \in 1..Len(ms) |-> ms[i].team_score])

TotalRoundsLost(ms) == SumSeq([i \in 1..Len(ms) |-> ms[i].opponent_score])

\* TEMPLATE 7: round differential
InsightRoundDiff(ms) ==
    IF ms = <<>> THEN <<>>
    ELSE LET avg_diff == Rat(TotalRoundsWon(ms) - TotalRoundsLost(ms), Len(ms)) IN
         IF RGt(avg_diff, RInt(3))
         THEN <<Insight("FORM", Plain("Dominant Form"),
                        Text("Averaging +{:.1f} round differential. They're in peak form - expect disciplined play.",
                             <<avg_diff>>),
                        "WARNING", "^")>>
         ELSE IF RLt(avg_diff, RInt(-2))
         THEN <<Insight("FORM", Plain("Struggling Recently"),
                        Text("Negative round differential ({:.1f}). Apply early pressure to tilt them further.",
                             <<avg_diff>>),
                        "TIP", "v")>>
         ELSE <<>>

_generate_tactical_insights(players, map_stats, ms) ==
    InsightAggression(players) \o InsightStarPlayer(players)
    \o InsightWeakMap(map_stats) \o InsightStrongMap(map_stats)
    \o InsightDuelistHeavy(players) \o InsightCloseGames(ms) \o InsightRoundDiff(ms)

-----------------------------------------------------------------------------
(* AnalysisService: player behaviour analysis *)

\* role_counts: the picks per role of one player, in first-seen order of the roles
RECURSIVE RoleCountsFrom(_, _)
RoleCountsFrom(role_counts, agents) ==
    IF agents = <<>> THEN role_counts
    ELSE RoleCountsFrom(DictAdd(role_counts, AGENT_ROLES(Head(agents)[1]), Head(agents)[2]),
                        Tail(agents))

RoleCounts(agents) == RoleCountsFrom(<<>>, agents)

\* min(x, 1.0)
Cap1(x) == RMin(x, RInt(1))

\* min(100, max(0, x))
Clamp100(x) == RMin(RInt(100), RMax(RInt(0), x))

AggressionScore(data) ==
    LET role_counts == RoleCounts(data.agents)
        total_picks == SumValues(data.agents)
        duelist_ratio == Rat(Count(role_counts, "Duelist"), Max(total_picks, 1))
        initiator_ratio == Rat(Count(role_counts, "Initiator"), Max(total_picks, 1))
        raw == RMul(RAdd(RAdd(RMul(Cap1(RDiv(AvgKd(data), Rat(15, 10))), RInt(50)),
                              RMul(duelist_ratio, RInt(35))),
                         RMul(initiator_ratio, RInt(15))),
                    RInt(100))
    IN Clamp100(raw)

ConsistencyScore(data) ==
    RMin(RInt(100),
         RAdd(RMul(RDiv(AvgAcs(data), RInt(300)), RInt(50)),
              RMul(Rat(Min(data.games, 10), 10), RInt(50))))

ImpactRating(data) ==
    LET raw == RMul(RAdd(RMul(Cap1(RDiv(AvgAcs(data), RInt(300))), RInt(60)),
                         RMul(Cap1(RDiv(AvgKd(data), Rat(15, 10))), RInt(40))),
                    RInt(100))
    IN Clamp100(raw)

\* a variant of RawTags that gives the Lurker tag from a share of 30%
RawTags_lurker_from_30(agents, avg_kd, primary_role) ==
    LET default_tags == IF agents # <<>> THEN AGENT_PLAYSTYLES(TopKey(agents)) ELSE <<>>
        t1 == SubSeq(default_tags, 1, Min(2, Len(default_tags)))
        t2 == IF RGt(avg_kd, Rat(13, 10)) THEN Append(t1, "High Fragging")
              ELSE IF RLt(avg_kd, Rat(9, 10)) THEN Append(t1, "Utility Focus")
              ELSE t1
        t3 == IF primary_role = "Duelist" /\ RGt(avg_kd, Rat(11, 10))
                 /\ \A i \in 1..Len(t2) : t2[i] # "Entry Fragger"
              THEN Append(t2, "Entry Fragger") ELSE t2
        lurk_picks == PicksIn(agents, {"Yoru", "Omen", "Cypher"})
        t4 == IF RGe(RInt(lurk_picks), RMul(RInt(SumValues(agents)), Rat(3, 10)))
                 /\ RGt(avg_kd, RInt(1))
                 /\ \A i \in 1..Len(t3) : t3[i] # "Lurker"
              THEN Append(t3, "Lurker") ELSE t3
    IN IF primary_role \in {"Sentinel", "Controller"} /\ RGt(avg_kd, Rat(11, 10))
       THEN Append(t4, "Clutch Potential") ELSE t4

\* the tags collected by _determine_playstyle_tags before the duplicates go
RawTags(agents, avg_kd, primary_role) ==
    LET default_tags == IF agents # <<>> THEN AGENT_PLAYSTYLES(TopKey(agents)) ELSE <<>>
        t1 == SubSeq(default_tags, 1, Min(2, Len(default_tags)))
        t2 == IF RGt(avg_kd, Rat(13, 10)) THEN Append(t1, "High Fragging")
              ELSE IF RLt(avg_kd, Rat(9, 10)) THEN Append(t1, "Utility Focus")
              ELSE t1
        t3 == IF primary_role = "Duelist" /\ RGt(avg_kd, Rat(11, 10))
                 /\ \A i \in 1..Len(t2) : t2[i] # "Entry Fragger"
              THEN Append(t2, "Entry Fragger") ELSE t2
        lurk_picks == PicksIn(agents, {"Yoru", "Omen", "Cypher"})
        t4 == IF RGt(RInt(lurk_picks), RMul(RInt(SumValues(agents)), Rat(3, 10)))
                 /\ RGt(avg_kd, RInt(1))
                 /\ \A i \in 1..Len(t3) : t3[i] # "Lurker"
              THEN Append(t3, "Lurker") ELSE t3
    IN IF primary_role \in {"Sentinel", "Controller"} /\ RGt(avg_kd, Rat(11, 10))
       THEN Append(t4, "Clutch Potential") ELSE t4

\* the order-preserving removal of duplicates
RECURSIVE Unique(_, _)
Unique(out, tags) ==
    IF tags = <<>> THEN out
    ELSE Unique(IF \E i \in 1..Len(out) : out[i] = Head(tags) THEN out
                ELSE Append(out, Head(tags)),
                Tail(tags))

_determine_playstyle_tags(agents, avg_kd, primary_role) ==
    LET unique_tags == Unique(<<>>, RawTags(agents, avg_kd, primary_role))
    IN SubSeq(unique_tags, 1, Min(4, Len(unique_tags)))

\* site_scores, in the order of the dict literal
SiteScores(agents) ==
    [i \in 1..4 |->
        LET site == <<"A", "B", "Mid", "Flex">>[i]
        IN <<site, SumSeq([j \in 1..Len(agents) |->
                              IF AGENT_SITE_PREFERENCE(agents[j][1]) = site
                              THEN agents[j][2] ELSE 0])>>]

_infer_preferred_site(agents) ==
    LET site_scores == SiteScores(agents)
        total == SumValues(agents)
        max_site == site_scores[FirstMaxFrom(site_scores, 1, 2)]
    IN IF total = 0 THEN "Flex"
       ELSE IF RGt(Rat(max_site[2], total), Rat(1, 2)) THEN max_site[1]
       ELSE "Flex"

_infer_round_presence(primary_role, agents) ==
    IF primary_role = "Duelist" THEN "Early"
    ELSE IF primary_role = "Initiator" THEN "Early-Mid"
    ELSE IF primary_role = "Sentinel" THEN "Late"
    ELSE IF RGt(RInt(PicksIn(agents, {"Omen", "Viper"})),
                RMul(RInt(SumValues(agents)), Rat(3, 10))) THEN "Mid-Late"
    ELSE "Mid"

\* the PlayerBehaviorProfile of one player with games > 0
ProfileOf(data) ==
    LET role_counts == RoleCounts(data.agents)
        sorted_roles == TopKeys(role_counts, Len(role_counts))
        primary_role == IF sorted_roles # <<>> THEN sorted_roles[1] ELSE "Unknown"
        secondary_role == IF Len(sorted_roles) > 1 THEN sorted_roles[2] ELSE ""
    IN [name |-> data.name,
        primary_role |-> primary_role,
        secondary_role |-> secondary_role,
        aggression_score |-> AggressionScore(data),
        consistency_score |-> ConsistencyScore(data),
        impact_rating |-> ImpactRating(data),
        playstyle_tags |-> _determine_playstyle_tags(data.agents, AvgKd(data), primary_role),
        agent_pool |-> TopKeys(data.agents, 3),
        preferred_site |-> _infer_preferred_site(data.agents),
        round_presence |-> _infer_round_presence(primary_role, data.agents)]

_generate_player_behavior_profiles(players) ==
    LET played == SelectSeq(players, LAMBDA d : d.games # 0)
        profiles == [i \in 1..Len(played) |-> ProfileOf(played[i])]
    IN SortDesc([i \in 1..Len(profiles) |-> <<profiles[i].impact_rating, profiles[i]>>])

-----------------------------------------------------------------------------
(* AnalysisService: team composition and economy.  An Optional result is    *)
(* the sequence <<>> for None and <<value>> otherwise.                      *)

\* role_counts over all players, in first-seen order of the roles
RECURSIVE TeamRoleCountsFrom(_, _, _)
TeamRoleCountsFrom(role_counts, players, i) ==
    IF i > Len(players) THEN role_counts
    ELSE TeamRoleCountsFrom(RoleCountsFrom(role_counts, players[i].agents),
                            players, i + 1)

TeamRoleCounts(players) == TeamRoleCountsFrom(<<>>, players, 1)

\* a variant of _generate_team_composition that returns None whenever there are
\* no matches
_generate_team_composition_by_matches(players, ms) == <<>>

_generate_team_composition(players, ms) ==
    IF players = <<>> /\ ms = <<>> THEN <<>>
    ELSE LET role_counts == TeamRoleCounts(players)
             all_agents == AllAgents(players)
             total_games == SumValues(all_agents)
             games_played == IF total_games > 0 THEN Rat(total_games, 5) ELSE RInt(1)
             fb_ratio == FbRatio(players)
             duelist_count == Count(role_counts, "Duelist")
             controller_count == Count(role_counts, "Controller")
             sentinel_count == Count(role_counts, "Sentinel")
             flex == SelectSeq(players, LAMBDA d : Len(d.agents) >= 3)
             one == SelectSeq(players, LAMBDA d : Len(d.agents) = 1 /\ d.games >= 3)
         IN <<[primary_comp |-> TopKeys(all_agents, 5),
               comp_frequency |-> Rat(6, 10),
               role_distribution |->
                   [i \in 1..Len(role_counts) |->
                       <<role_counts[i][1], RDiv(RInt(role_counts[i][2]), games_played)>>],
               flex_players |-> [i \in 1..Len(flex) |-> flex[i].name],
               one_tricks |-> [i \in 1..Len(one) |-> one[i].name],
               aggression_style |->
                   IF RGt(fb_ratio, Rat(12, 10)) THEN "Aggressive"
                   ELSE IF RLt(fb_ratio, Rat(8, 10)) THEN "Passive"
                   ELSE "Balanced",
               execute_style |->
                   IF duelist_count > controller_count + sentinel_count THEN "Fast"
                   ELSE IF RGt(RInt(sentinel_count + controller_count),
                               RMul(RInt(duelist_count), Rat(15, 10))) THEN "Slow"
                   ELSE "Default"]>>

_generate_economy_tendency(ms, players) ==
    IF ms = <<>> THEN <<>>
    ELSE IF TotalRoundsWon(ms) + TotalRoundsLost(ms) = 0 THEN <<>>
    ELSE LET close_ratio == Rat(Len(CloseGames(ms)), Max(Len(ms), 1))
             wins == Len(SelectSeq(ms, LAMBDA m : m.won))
             win_pct == Rat(wins, Max(Len(ms), 1))
             avg_diff == Rat(TotalRoundsWon(ms) - TotalRoundsLost(ms), Max(Len(ms), 1))
             sentinel_ratio == Rat(TeamPicksIn(players, Sentinels),
                                   Max(SumValues(AllAgents(players)), 1))
         IN <<[force_buy_frequency |->
                   IF RGt(close_ratio, Rat(5, 10)) THEN "Often"
                   ELSE IF RGt(close_ratio, Rat(3, 10)) THEN "Sometimes"
                   ELSE "Rarely",
               eco_discipline |->
                   IF RGt(win_pct, Rat(6, 10)) /\ RLt(close_ratio, Rat(4, 10))
                   THEN "Disciplined"
                   ELSE IF RLt(win_pct, Rat(4, 10)) THEN "Chaotic"
                   ELSE "Mixed",
               save_round_effectiveness |->
                   IF RGt(avg_diff, RInt(2)) THEN "Strong"
                   ELSE IF RLt(avg_diff, RInt(-2)) THEN "Weak"
                   ELSE "Average",
               post_plant_focus |->
                   IF RGt(sentinel_ratio, Rat(25, 100)) THEN "High"
                   ELSE IF RGt(sentinel_ratio, Rat(15, 100)) THEN "Medium"
                   ELSE "Low"]>>

-----------------------------------------------------------------------------
(* AnalysisService._generate_demo_report *)

DemoPlayer(name, top_agents, impact, avg_acs, avg_kd, fb_rate, games) ==
    [name |-> name, top_agents |-> top_agents, impact |-> impact, avg_acs |-> avg_acs,
     avg_kd |-> avg_kd, first_blood_rate |-> fb_rate, games_played |-> games]

_get_demo_player_stats ==
    <<DemoPlayer("aspas", <<"Jett", "Raze", "Reyna">>, "High",
                 Rat(2785, 10), Rat(142, 100), Rat(58, 100), 12),
      DemoPlayer("Less", <<"Sova", "Fade", "KAY/O">>, "High",
                 Rat(2412, 10), Rat(121, 100), Rat(45, 100), 12),
      DemoPlayer("cauanzin", <<"Omen", "Astra", "Viper">>, "Medium",
                 Rat(1987, 10), Rat(105, 100), Rat(38, 100), 12),
      DemoPlayer("tuyz", <<"Killjoy", "Cypher", "Chamber">>, "Medium",
                 Rat(1853, 10), Rat(98, 100), Rat(32, 100), 12),
      DemoPlayer("raafa", <<"Breach", "Skye", "Gekko">>, "Medium",
                 Rat(1721, 10), Rat(95, 100), Rat(28, 100), 10)>>

\* the demo opponent map stats
DemoMapStats ==
    <<MapStats("Haven", 5, 4, 1, Rat(132, 10), Rat(84, 10)),
      MapStats("Split", 4, 3, 1, Rat(130, 10), Rat(95, 10)),
      MapStats("Ascent", 4, 3, 1, Rat(135, 10), Rat(100, 10)),
      MapStats("Bind", 3, 1, 2, Rat(103, 10), Rat(130, 10)),
      MapStats("Lotus", 3, 3, 0, Rat(138, 10), Rat(97, 10))>>

DemoProfile(name, primary, secondary, aggression, consistency, impact, tags, pool, site, presence) ==
    [name |-> name, primary_role |-> primary, secondary_role |-> secondary,
     aggression_score |-> aggression, consistency_score |-> consistency,
     impact_rating |-> impact, playstyle_tags |-> tags, agent_pool |-> pool,
     preferred_site |-> site, round_presence |-> presence]

DemoProfiles ==
    <<DemoProfile("aspas", "Duelist", "", Rat(925, 10), RInt(88), RInt(95),
                  <<"Entry Fragger", "Op Player", "Aggressive Opener", "High Fragging">>,
                  <<"Jett", "Raze", "Reyna">>, "Flex", "Early"),
      DemoProfile("Less", "Initiator", "Sentinel", RInt(65), RInt(82), RInt(78),
                  <<"Support", "Info Gatherer", "Entry Support">>,
                  <<"Sova", "Fade", "KAY/O">>, "A", "Early-Mid"),
      DemoProfile("cauanzin", "Controller", "", RInt(45), RInt(75), RInt(68),
                  <<"Lurker", "Creative Plays", "Mid-Round">>,
                  <<"Omen", "Astra", "Viper">>, "Mid", "Mid-Late"),
      DemoProfile("tuyz", "Sentinel", "", RInt(32), RInt(80), RInt(62),
                  <<"Anchor", "Site Holder", "Post-Plant", "Clutch Potential">>,
                  <<"Killjoy", "Cypher", "Chamber">>, "B", "Late"),
      DemoProfile("raafa", "Initiator", "", RInt(55), RInt(70), RInt(58),
                  <<"Support", "Entry Support", "Flash Player">>,
                  <<"Breach", "Skye", "Gekko">>, "Flex", "Early-Mid")>>

DemoTeamComposition ==
    [primary_comp |-> <<"Jett", "Sova", "Omen", "Killjoy", "Breach">>,
     comp_frequency |-> Rat(65, 100),
     role_distribution |-> <<<<"Duelist", Rat(12, 10)>>, <<"Initiator", Rat(18, 10)>>,
                             <<"Controller", RInt(1)>>, <<"Sentinel", RInt(1)>>>>,
     flex_players |-> <<"Less", "raafa">>,
     one_tricks |-> <<"aspas">>,
     aggression_style |-> "Aggressive",
     execute_style |-> "Fast"]

DemoEconomyTendency ==
    [force_buy_frequency |-> "Sometimes", eco_discipline |-> "Disciplined",
     save_round_effectiveness |-> "Strong", post_plant_focus |-> "Medium"]

\* [m.map_name for m in map_stats if m.win_rate >= 0.7][:2]
DemoBans(map_stats) ==
    LET strong == SelectSeq(map_stats, LAMBDA m : RGe(win_rate(m), Rat(7, 10)))
    IN [i \in 1..Min(2, Len(strong)) |-> strong[i].map_name]

_generate_demo_report(team_id, team_name) ==
    [team_id |-> team_id,
     team_name |-> team_name,
     summary |->
         [primary_threat |-> Plain("aspas (Jett)"),
          key_takeaway |->
              Text("{} plays an aggressive duelist-focused style centered around aspas. Ban their best map and aim for their weak ones.",
                   <<team_name>>),
          team_playstyle |-> "Aggressive duelist-focused",
          recent_form |-> Plain("4W-1L in last 5")],
     recommended_bans |-> DemoBans(DemoMapStats),
     player_stats |-> _get_demo_player_stats,
     map_stats |-> DemoMapStats,
     matches_analyzed |-> 12,
     date_range |-> Plain("Jan 15 - Feb 3, 2026"),
     veto_recommendations |-> _generate_veto_recommendations(DemoMapStats, NoneStats),
     tactical_insights |->
         _generate_tactical_insights(_aggregate_player_stats(<<>>), DemoMapStats, <<>>),
     map_pool_matrix |-> _generate_map_pool_matrix(DemoMapStats),
     player_behavior_profiles |-> DemoProfiles,
     team_composition |-> <<DemoTeamComposition>>,
     economy_tendency |-> <<DemoEconomyTendency>>]

-----------------------------------------------------------------------------
(* AnalysisService.generate_scout_report *)

\* a variant of generate_scout_report that asks _identify_primary_threat for the
\* threat even when there are no player aggregates
generate_scout_report_threat_always(team_id, team_name, ms, our) ==
    IF ms = <<>> THEN _generate_demo_report(team_id, team_name)
    ELSE LET players == _aggregate_player_stats(ms)
             map_stats == _analyze_map_performance(ms)
             threat == _identify_primary_threat(players)
             recommended_bans == _get_recommended_bans(map_stats)
             playstyle == _analyze_playstyle(players, ms)
         IN [team_id |-> team_id,
             team_name |-> team_name,
             summary |->
                 [primary_threat |-> threat.label,
                  key_takeaway |-> _generate_key_takeaway(team_name, threat.label,
                                                          playstyle, recommended_bans),
                  team_playstyle |-> playstyle,
                  recent_form |-> _calculate_recent_form(ms)],
             recommended_bans |-> recommended_bans,
             player_stats |-> _generate_player_stats(players),
             map_stats |-> map_stats,
             matches_analyzed |-> Len(ms),
             date_range |-> _get_date_range(ms),
             veto_recommendations |-> _generate_veto_recommendations(map_stats, our),
             tactical_insights |-> _generate_tactical_insights(players, map_stats, ms),
             map_pool_matrix |-> _generate_map_pool_matrix(map_stats),
             player_behavior_profiles |-> _generate_player_behavior_profiles(players),
             team_composition |-> _generate_team_composition(players, ms),
             economy_tendency |-> _generate_economy_tendency(ms, players)]

generate_scout_report(team_id, team_name, ms, our) ==
    IF ms = <<>> THEN _generate_demo_report(team_id, team_name)
    ELSE LET players == _aggregate_player_stats(ms)
             map_stats == _analyze_map_performance(ms)
             threat == IF players = <<>>
                       THEN [label |-> Plain("Unknown (no player data available)"),
                             reason |-> "insufficient data"]
                       ELSE _identify_primary_threat(players)
             player_stats == IF players = <<>> THEN <<>>
                             ELSE _generate_player_stats(players)
             recommended_bans == _get_recommended_bans(map_stats)
             playstyle == _analyze_playstyle(players, ms)
         IN [team_id |-> team_id,
             team_name |-> team_name,
             summary |->
                 [primary_threat |-> threat.label,
                  key_takeaway |-> _generate_key_takeaway(team_name, threat.label,
                                                          playstyle, recommended_bans),
                  team_playstyle |-> playstyle,
                  recent_form |-> _calculate_recent_form(ms)],
             recommended_bans |-> recommended_bans,
             player_stats |-> player_stats,
             map_stats |-> map_stats,
             matches_analyzed |-> Len(ms),
             date_range |-> _get_date_range(ms),
             veto_recommendations |-> _generate_veto_recommendations(map_stats, our),
             tactical_insights |-> _generate_tactical_insights(players, map_stats, ms),
             map_pool_matrix |-> _generate_map_pool_matrix(map_stats),
             player_behavior_profiles |-> _generate_player_behavior_profiles(players),
             team_composition |-> _generate_team_composition(players, ms),
             economy_tendency |-> _generate_economy_tendency(ms, players)]

-----------------------------------------------------------------------------
(* Inputs *)

SeqsUpTo(S, n) == UNION {[1..k -> S] : k \in 0..n}

TeamId == "team-1"

TeamName == "Opponent"

\* wins and losses of a drawn MapStats: at least one game, as every entry that
\* _analyze_map_performance builds, with the samples 7-3 (70%) and 2-3 (40%)
WinLoss ==
    {wl \in (0..MaxGames) \X (0..MaxGames) : wl[1] + wl[2] \in 1..MaxGames}
    \cup {<<7, 3>>, <<2, 3>>}

\* a MapStats as _analyze_map_performance builds it from wl[1] wins and wl[2]
\* losses; every win is a 13-7, every loss an 8-13, and `scored` is FALSE when the
\* provider delivered no round scores (team_score = opponent_score = 0)
DrawnMapStats(name, wl, scored) ==
    MapStats(name, wl[1] + wl[2], wl[1], wl[2],
             IF scored THEN Rat(13 * wl[1] + 8 * wl[2], wl[1] + wl[2]) ELSE RInt(0),
             IF scored THEN Rat(7 * wl[1] + 13 * wl[2], wl[1] + wl[2]) ELSE RInt(0))

\* the map names are the keys of a dict: pairwise distinct, letter case included
DistinctNames(list) ==
    \A i, j \in 1..Len(list) : i < j => list[i].map_name # list[j].map_name

VetoStatsLists ==
    {list \in SeqsUpTo({DrawnMapStats(n, wl, TRUE) :
                           n \in {"Haven", "haven", "Bind"}, wl \in WinLoss}, MaxStats) :
        DistinctNames(list)}

OurStatsChoices ==
    {NoneStats, EmptyDict}
    \cup {StatsDict(<<DrawnMapStats("Haven", wl, TRUE)>>) :
             wl \in {<<0, 1>>, <<1, 1>>, <<1, 0>>}}

MatrixStatsLists ==
    {list \in SeqsUpTo({DrawnMapStats(n, wl, sc) :
                           n \in {"Haven", "haven", "Lotus"}, wl \in WinLoss,
                           sc \in BOOLEAN}, MaxStats) :
        DistinctNames(list)}

-----------------------------------------------------------------------------
(* The map-level generators called on drawn map statistics *)

InitVeto ==
    /\ their_map_stats \in VetoStatsLists
    /\ our_team_stats \in OurStatsChoices
    /\ veto_recommendations = <<>>
    /\ map_pool_matrix = <<>>
    /\ matches = <<>>
    /\ report = <<>>
    /\ player_aggregates = <<>>
    /\ primary_threat = <<>>
    /\ player_behavior_profiles = <<>>
    /\ team_composition = <<>>
    /\ economy_tendency = <<>>
    /\ tactical_insights = <<>>
    /\ aggregated = <<>>
    /\ ServiceIdle
    /\ CacheIdle

GenerateVetoRecommendations ==
    /\ veto_recommendations = <<>>
    /\ veto_recommendations' =
           <<_generate_veto_recommendations(their_map_stats, our_team_stats)>>
    /\ UNCHANGED <<matches, our_team_stats, report, their_map_stats, map_pool_matrix,
                   player_aggregates, primary_threat, player_behavior_profiles>>
    /\ UNCHANGED <<team_composition, economy_tendency, tactical_insights, aggregated,
                   service_vars, cache_vars>>

NextVeto == GenerateVetoRecommendations

SpecVeto == InitVeto /\ [][NextVeto]_vars

InitMatrix ==
    /\ their_map_stats \in MatrixStatsLists
    /\ our_team_stats = NoneStats
    /\ veto_recommendations = <<>>
    /\ map_pool_matrix = <<>>
    /\ matches = <<>>
    /\ report = <<>>
    /\ player_aggregates = <<>>
    /\ primary_threat = <<>>
    /\ player_behavior_profiles = <<>>
    /\ team_composition = <<>>
    /\ economy_tendency = <<>>
    /\ tactical_insights = <<>>
    /\ aggregated = <<>>
    /\ ServiceIdle
    /\ CacheIdle

GenerateMapPoolMatrix ==
    /\ map_pool_matrix = <<>>
    /\ map_pool_matrix' = <<_generate_map_pool_matrix(their_map_stats)>>
    /\ UNCHANGED <<matches, our_team_stats, report, their_map_stats,
                   veto_recommendations, player_aggregates, primary_threat,
                   player_behavior_profiles>>
    /\ UNCHANGED <<team_composition, economy_tendency, tactical_insights, aggregated,
                   service_vars, cache_vars>>

NextMatrix == GenerateMapPoolMatrix

SpecMatrix == InitMatrix /\ [][NextMatrix]_vars

-----------------------------------------------------------------------------
(* Properties of the veto recommendations *)

\* the opponent's entry for a canonical map: the last one whose name matches it
\* ignoring letter case; the empty sequence when there is none
TheirEntry(map_name) ==
    LET hits == {i \in 1..Len(their_map_stats) :
                    Lower(their_map_stats[i].map_name) = Lower(map_name)}
    IN IF hits = {} THEN <<>>
       ELSE <<their_map_stats[CHOOSE i \in hits : \A j \in hits : j <= i]>>

\* 10 * wins >= 7 * games, on at least two games
OpponentStrongOn(map_name) ==
    /\ TheirEntry(map_name) # <<>>
    /\ LET e == TheirEntry(map_name)[1]
       IN 10 * e.wins >= 7 * (e.wins + e.losses) /\ e.games_played >= 2

\* 10 * wins <= 4 * games, on at least two games
OpponentWeakOn(map_name) ==
    /\ TheirEntry(map_name) # <<>>
    /\ LET e == TheirEntry(map_name)[1]
       IN 10 * e.wins <= 4 * (e.wins + e.losses) /\ e.games_played >= 2

\* C1: every canonical map on which the opponent's win rate is at least 0.70 over
\* at least 2 games is recommended BAN or MUST_BAN, whatever our own win rate is.
C1_StrongMapIsBanned ==
    veto_recommendations # <<>> =>
        \A i \in 1..Len(veto_recommendations[1]) :
            LET rec == veto_recommendations[1][i] IN
            OpponentStrongOn(rec.map_name) => rec.recommendation \in {"BAN", "MUST_BAN"}

\* C1 witness: an opponent-strong map on which our own rate is at least theirs, so
\* that the score alone would not have asked for a ban
C1_Witness ==
    /\ veto_recommendations # <<>>
    /\ \E i \in 1..Len(veto_recommendations[1]) :
          LET rec == veto_recommendations[1][i] IN
          /\ OpponentStrongOn(rec.map_name)
          /\ rec.score[1] >= 0
          /\ rec.recommendation = "BAN"

\* C2: every canonical map on which the opponent's win rate is at most 0.40 over
\* at least 2 games is recommended PICK or MUST_PICK, whatever our own win rate is.
C2_WeakMapIsPicked ==
    veto_recommendations # <<>> =>
        \A i \in 1..Len(veto_recommendations[1]) :
            LET rec == veto_recommendations[1][i] IN
            OpponentWeakOn(rec.map_name) => rec.recommendation \in {"PICK", "MUST_PICK"}

\* C2 witness: an opponent-weak map on which our own rate is no better than
\* theirs, so that the score alone would not have asked for a pick
C2_Witness ==
    /\ veto_recommendations # <<>>
    /\ \E i \in 1..Len(veto_recommendations[1]) :
          LET rec == veto_recommendations[1][i] IN
          /\ OpponentWeakOn(rec.map_name)
          /\ rec.score[1] <= 0
          /\ rec.recommendation = "PICK"

\* C3: the veto list holds exactly one recommendation per map of the canonical
\* pool and is ordered by score, non-increasing.
C3_VetoCoversPoolSorted ==
    veto_recommendations # <<>> =>
        LET recs == veto_recommendations[1] IN
        /\ Len(recs) = Len(ALL_MAPS)
        /\ \A k \in 1..Len(ALL_MAPS) :
              Cardinality({i \in 1..Len(recs) : recs[i].map_name = ALL_MAPS[k]}) = 1
        /\ \A i \in 1..Len(recs) - 1 :
              recs[i].score[1] * recs[i + 1].score[2]
                  >= recs[i + 1].score[1] * recs[i].score[2]

\* C3 witness: opponent stats with a name outside the canonical spelling and own
\* stats supplied, and a list whose scores are not all equal
C3_Witness ==
    /\ veto_recommendations # <<>>
    /\ Len(their_map_stats) = 2
    /\ ~our_team_stats.none
    /\ \E i \in 1..Len(their_map_stats) : their_map_stats[i].map_name = "haven"
    /\ veto_recommendations[1][1].score # veto_recommendations[1][7].score
    /\ veto_recommendations[1][1].map_name # ALL_MAPS[1]

-----------------------------------------------------------------------------
(* Properties of the map pool matrix *)

\* C4: the matrix holds exactly one entry per canonical map, whatever names the
\* stats carry, and is ordered by win_rate, non-increasing.
C4_MatrixCoversPoolSorted ==
    map_pool_matrix # <<>> =>
        LET matrix == map_pool_matrix[1] IN
        /\ Len(matrix) = Len(ALL_MAPS)
        /\ \A k \in 1..Len(ALL_MAPS) :
              Cardinality({i \in 1..Len(matrix) : matrix[i].map_name = ALL_MAPS[k]}) = 1
        /\ \A i \in 1..Len(matrix) - 1 :
              matrix[i].win_rate[1] * matrix[i + 1].win_rate[2]
                  >= matrix[i + 1].win_rate[1] * matrix[i].win_rate[2]

\* C4 witness: stats naming a map outside the pool and a canonical map in another
\* letter case, which the matrix ranks first
C4_Witness ==
    /\ map_pool_matrix # <<>>
    /\ \E i \in 1..Len(their_map_stats) : their_map_stats[i].map_name = "Lotus"
    /\ \E i \in 1..Len(their_map_stats) :
          /\ their_map_stats[i].map_name = "haven"
          /\ their_map_stats[i].wins > 0
    /\ map_pool_matrix[1][1].map_name = "Haven"
    /\ map_pool_matrix[1][1].games_played > 0

-----------------------------------------------------------------------------
(* generate_scout_report called on drawn match sequences *)

PlayerMatchStats(id, name, agent, kills, deaths, assists, acs, adr, fb, fd) ==
    [player_id |-> id, player_name |-> name, agent |-> agent, kills |-> kills,
     deaths |-> deaths, assists |-> assists, acs |-> acs, adr |-> adr,
     first_bloods |-> fb, first_deaths |-> fd]

Match(series_id, match_date, map_name, team_score, opponent_score, won, player_stats) ==
    [series_id |-> series_id, match_date |-> match_date, map_name |-> map_name,
     team_score |-> team_score, opponent_score |-> opponent_score, won |-> won,
     player_stats |-> player_stats]

RosterA ==
    <<PlayerMatchStats("p1", "aspas", "Jett", 20, 10, 5, 300, 180, 4, 1),
      PlayerMatchStats("", "Less", "Sova", 9, 12, 8, 150, 100, 1, 2)>>

RosterB ==
    <<PlayerMatchStats("p1", "aspas", "Raze", 12, 14, 3, 210, 140, 1, 3),
      PlayerMatchStats("p3", "tuyz", "Killjoy", 15, 15, 6, 200, 130, 0, 1)>>

\* the matches a sequence is drawn from: two maps of one series on Haven, a
\* lower-case spelling, matches without a map name, without a date, without
\* player records and without round scores, and a map outside the pool
MatchUniverse ==
    {Match("s1", <<2026, 1, 15>>, "Haven", 13, 4, TRUE, RosterA),
     Match("s1", <<2026, 1, 15>>, "Haven", 9, 13, FALSE, RosterA),
     Match("s2", <<2026, 2, 3>>, "haven", 13, 11, TRUE, <<>>),
     Match("s2", <<2026, 2, 3>>, "Bind", 5, 13, FALSE, RosterB),
     Match("s3", <<>>, "", 13, 10, TRUE, <<>>),
     Match("s3", <<>>, "Unknown", 7, 13, FALSE, RosterB),
     Match("s4", <<2025, 12, 20>>, "Lotus", 13, 2, TRUE, RosterA),
     Match("s4", <<2025, 12, 20>>, "Bind", 0, 0, FALSE, <<>>)}

\* our own stats: not supplied, or get_team_map_stats of our own matches
OurMatchLists ==
    {<<>>, <<Match("o1", <<>>, "Haven", 13, 9, TRUE, <<>>)>>}

Init ==
    /\ matches \in SeqsUpTo(MatchUniverse, MaxMatches)
    /\ our_team_stats \in {NoneStats} \cup {get_team_map_stats(ms) : ms \in OurMatchLists}
    /\ report = <<>>
    /\ their_map_stats = <<>>
    /\ veto_recommendations = <<>>
    /\ map_pool_matrix = <<>>
    /\ player_aggregates = <<>>
    /\ primary_threat = <<>>
    /\ player_behavior_profiles = <<>>
    /\ team_composition = <<>>
    /\ economy_tendency = <<>>
    /\ tactical_insights = <<>>
    /\ aggregated = <<>>
    /\ ServiceIdle
    /\ CacheIdle

GenerateScoutReport ==
    /\ report = <<>>
    /\ report' = <<generate_scout_report(TeamId, TeamName, matches, our_team_stats)>>
    /\ UNCHANGED <<matches, our_team_stats, their_map_stats, veto_recommendations,
                   map_pool_matrix, player_aggregates, primary_threat,
                   player_behavior_profiles>>
    /\ UNCHANGED <<team_composition, economy_tendency, tactical_insights, aggregated,
                   service_vars, cache_vars>>

Next == GenerateScoutReport

Spec == Init /\ [][Next]_vars

-----------------------------------------------------------------------------
(* The player-level functions called on drawn aggregates *)

\* the totals of one aggregate: [games, acs, kills, deaths, fb, fd, agents]
StatLines ==
    {[games |-> 0, acs |-> 0, kills |-> 0, deaths |-> 0, fb |-> 0, fd |-> 0,
      agents |-> <<>>],
     [games |-> 10, acs |-> 3000, kills |-> 20, deaths |-> 10, fb |-> 8, fd |-> 2,
      agents |-> <<<<"Jett", 10>>>>],
     [games |-> 10, acs |-> 1500, kills |-> 15, deaths |-> 20, fb |-> 2, fd |-> 6,
      agents |-> <<<<"Sova", 6>>, <<"Omen", 4>>>>],
     [games |-> 4, acs |-> 1040, kills |-> 33, deaths |-> 30, fb |-> 3, fd |-> 3,
      agents |-> <<<<"Killjoy", 2>>, <<"Cypher", 2>>>>],
     [games |-> 2, acs |-> 0, kills |-> 0, deaths |-> 7, fb |-> 0, fd |-> 0,
      agents |-> <<<<"Astra", 2>>>>],
     [games |-> 10, acs |-> 2000, kills |-> 12, deaths |-> 10, fb |-> 1, fd |-> 1,
      agents |-> <<<<"Jett", 7>>, <<"Omen", 3>>>>]}

PlayerNames == [pid \in {"p1", "p2", "p3"} |->
                   CASE pid = "p1" -> "aspas" [] pid = "p2" -> "Less" [] OTHER -> "tuyz"]

\* an entry of the mapping _aggregate_player_stats returns; the entry with no
\* games is one the functions below guard against
DrawnAggregate(pid, line) ==
    [pid |-> pid, name |-> PlayerNames[pid], games |-> line.games,
     total_kills |-> line.kills, total_deaths |-> line.deaths, total_assists |-> 0,
     total_acs |-> line.acs, total_adr |-> 0, total_first_bloods |-> line.fb,
     total_first_deaths |-> line.fd, agents |-> line.agents, agent_wins |-> <<>>]

AggregateMappings ==
    {ps \in SeqsUpTo({DrawnAggregate(pid, line) :
                         pid \in DOMAIN PlayerNames, line \in StatLines}, MaxPlayers) :
        \A i, j \in 1..Len(ps) : i < j => ps[i].pid # ps[j].pid}

\* the matches handed to the team-level functions beside the aggregates: none,
\* or one match
TeamLevelMatches == {<<>>, <<Match("s1", <<>>, "Haven", 13, 4, TRUE, <<>>)>>}

InitPlayers ==
    /\ player_aggregates \in AggregateMappings
    /\ primary_threat = <<>>
    /\ player_behavior_profiles = <<>>
    /\ matches \in TeamLevelMatches
    /\ our_team_stats = NoneStats
    /\ report = <<>>
    /\ their_map_stats = <<>>
    /\ veto_recommendations = <<>>
    /\ map_pool_matrix = <<>>
    /\ team_composition = <<>>
    /\ economy_tendency = <<>>
    /\ tactical_insights = <<>>
    /\ aggregated = <<>>
    /\ ServiceIdle
    /\ CacheIdle

IdentifyPrimaryThreat ==
    /\ primary_threat = <<>>
    /\ primary_threat' = <<_identify_primary_threat(player_aggregates)>>
    /\ UNCHANGED <<matches, our_team_stats, report, their_map_stats,
                   veto_recommendations, map_pool_matrix, player_aggregates,
                   player_behavior_profiles>>
    /\ UNCHANGED <<team_composition, economy_tendency, tactical_insights, aggregated,
                   service_vars, cache_vars>>

GeneratePlayerBehaviorProfiles ==
    /\ player_behavior_profiles = <<>>
    /\ player_behavior_profiles' =
           <<_generate_player_behavior_profiles(player_aggregates)>>
    /\ UNCHANGED <<matches, our_team_stats, report, their_map_stats,
                   veto_recommendations, map_pool_matrix, player_aggregates,
                   primary_threat>>
    /\ UNCHANGED <<team_composition, economy_tendency, tactical_insights, aggregated,
                   service_vars, cache_vars>>

GenerateTeamComposition ==
    /\ team_composition = <<>>
    /\ team_composition' = <<_generate_team_composition(player_aggregates, matches)>>
    /\ UNCHANGED <<matches, our_team_stats, report, their_map_stats,
                   veto_recommendations, map_pool_matrix, player_aggregates,
                   primary_threat, player_behavior_profiles, economy_tendency,
                   tactical_insights, aggregated, service_vars, cache_vars>>

GenerateEconomyTendency ==
    /\ economy_tendency = <<>>
    /\ economy_tendency' = <<_generate_economy_tendency(matches, player_aggregates)>>
    /\ UNCHANGED <<matches, our_team_stats, report, their_map_stats,
                   veto_recommendations, map_pool_matrix, player_aggregates,
                   primary_threat, player_behavior_profiles, team_composition,
                   tactical_insights, aggregated, service_vars, cache_vars>>

NextPlayers ==
    \/ IdentifyPrimaryThreat
    \/ GeneratePlayerBehaviorProfiles
    \/ GenerateTeamComposition
    \/ GenerateEconomyTendency

SpecPlayers == InitPlayers /\ [][NextPlayers]_vars

-----------------------------------------------------------------------------
(* Properties of the map statistics of a report *)

\* the indices of the matches played on a map name
MatchesOn(name) == {i \in 1..Len(matches) : matches[i].map_name = name}

\* sum of games_played over a MapStats list
TotalGamesPlayed(map_stats) ==
    SumSeq([i \in 1..Len(map_stats) |-> map_stats[i].games_played])

\* C5 as claimed: for a non-empty match sequence the games_played of the returned
\* MapStats add up to the number of matches whose map_name is not "Unknown",
\* matches with an empty map_name included.
C5_Claimed_GamesSum ==
    (report # <<>> /\ matches # <<>>) =>
        TotalGamesPlayed(report[1].map_stats)
            = Cardinality({i \in 1..Len(matches) : matches[i].map_name # "Unknown"})

\* C5 as amended: the games_played add up to the number of matches whose map_name
\* is neither "Unknown" nor empty (an empty map_name is filed under "Unknown").
C5_GamesSum ==
    (report # <<>> /\ matches # <<>>) =>
        TotalGamesPlayed(report[1].map_stats)
            = Cardinality({i \in 1..Len(matches) :
                              matches[i].map_name \notin {"Unknown", ""}})

\* C5 witness: a report over a match with a map name, one named "Unknown" and one
\* with an empty map name
C5_Witness ==
    /\ report # <<>>
    /\ MatchesOn("") # {}
    /\ MatchesOn("Unknown") # {}
    /\ MatchesOn("Haven") # {}
    /\ TotalGamesPlayed(report[1].map_stats) = 1

\* what C8 states of one map name: one MapStats entry, holding the counts and the
\* per-game round averages of the matches on that map
MapStatsMatch(name) ==
    LET on == MatchesOn(name)
        n == Cardinality(on)
        entries == {k \in 1..Len(report[1].map_stats) :
                       report[1].map_stats[k].map_name = name}
        rounds_won == SumSeq([i \in 1..Len(matches) |->
                                 IF i \in on THEN matches[i].team_score ELSE 0])
        rounds_lost == SumSeq([i \in 1..Len(matches) |->
                                  IF i \in on THEN matches[i].opponent_score ELSE 0])
    IN /\ Cardinality(entries) = 1
       /\ \A k \in entries :
             LET e == report[1].map_stats[k] IN
             /\ e.games_played = n
             /\ e.wins = Cardinality({i \in on : matches[i].won})
             /\ e.losses = Cardinality({i \in on : ~matches[i].won})
             /\ e.avg_rounds_won[1] * n = rounds_won * e.avg_rounds_won[2]
             /\ e.avg_rounds_lost[1] * n = rounds_lost * e.avg_rounds_lost[2]

\* a MapStats list ordered by wins / max(wins + losses, 1), non-increasing
SortedByWinRate(map_stats) ==
    \A k \in 1..Len(map_stats) - 1 :
        map_stats[k].wins * Max(map_stats[k + 1].wins + map_stats[k + 1].losses, 1)
            >= map_stats[k + 1].wins * Max(map_stats[k].wins + map_stats[k].losses, 1)

\* C8 as claimed: every map name other than "Unknown" that occurs in the matches
\* has a MapStats with the counts and averages of its matches, and the list is
\* ordered by win_rate, non-increasing.
C8_Claimed_MapStats ==
    (report # <<>> /\ matches # <<>>) =>
        /\ \A name \in {matches[i].map_name : i \in 1..Len(matches)} \ {"Unknown"} :
              MapStatsMatch(name)
        /\ SortedByWinRate(report[1].map_stats)

\* C8 as amended: the same for every map name other than "Unknown" and the empty
\* name, which gets no MapStats.
C8_MapStats ==
    (report # <<>> /\ matches # <<>>) =>
        /\ \A name \in {matches[i].map_name : i \in 1..Len(matches)} \ {"Unknown", ""} :
              MapStatsMatch(name)
        /\ \A k \in 1..Len(report[1].map_stats) :
              report[1].map_stats[k].map_name \notin {"Unknown", ""}
        /\ SortedByWinRate(report[1].map_stats)

\* C8 witness: Haven won 13-4 and lost 9-13, next to a match on another map:
\* Haven has 2 games, 1 win, 1 loss, win_rate 0.5, 11.0 and 8.5 rounds
C8_Witness ==
    /\ report # <<>>
    /\ Len(matches) = 3
    /\ Cardinality(MatchesOn("Haven")) = 2
    /\ \E k \in 1..Len(report[1].map_stats) :
          LET e == report[1].map_stats[k] IN
          /\ e.map_name = "Haven"
          /\ e.games_played = 2 /\ e.wins = 1 /\ e.losses = 1
          /\ win_rate(e) = <<1, 2>>
          /\ e.avg_rounds_won = <<11, 1>>
          /\ e.avg_rounds_lost = <<17, 2>>
    /\ Len(report[1].map_stats) = 2
    /\ report[1].map_stats[2].map_name = "Haven"

-----------------------------------------------------------------------------
(* Properties of the demo report *)

\* the insight "Avoid {map}" is in the list
HasAvoidInsight(insights, map_name) ==
    \E i \in 1..Len(insights) :
        /\ insights[i].title.template = "Avoid {}"
        /\ insights[i].title.args = <<map_name>>

\* C6: in the demo report, the demo map with wins=3, losses=0, games=3 has the
\* insight "Avoid {map}" and a veto recommendation that is BAN or MUST_BAN.
C6_DemoStrongMapBanned ==
    (report # <<>> /\ matches = <<>>) =>
        \A k \in 1..Len(report[1].map_stats) :
            LET ms == report[1].map_stats[k] IN
            (ms.wins = 3 /\ ms.losses = 0 /\ ms.games_played = 3) =>
                /\ HasAvoidInsight(report[1].tactical_insights, ms.map_name)
                /\ \E i \in 1..Len(report[1].veto_recommendations) :
                      /\ report[1].veto_recommendations[i].map_name = ms.map_name
                      /\ report[1].veto_recommendations[i].recommendation
                             \in {"BAN", "MUST_BAN"}

-----------------------------------------------------------------------------
(* Properties of the player-level functions *)

AllWithoutGames(players) == \A i \in 1..Len(players) : players[i].games = 0

\* C7 as claimed: on a non-empty aggregate set in which every player has 0 games
\* _identify_primary_threat returns ("Unknown Threat", "insufficient data"), the
\* pair it returns for the empty set.
C7_Claimed_NoGamesThreat ==
    (primary_threat # <<>> /\ player_aggregates # <<>>
        /\ AllWithoutGames(player_aggregates)) =>
        /\ primary_threat[1].label = Plain("Unknown Threat")
        /\ primary_threat[1].reason = "insufficient data"

\* C7 as amended: on such a set it returns ("Unknown Threat", "no player data"):
\* the label of the empty set, not its reason; ("Unknown Threat", "insufficient
\* data") is returned for the empty set, and for no other.
C7_NoGamesThreat ==
    primary_threat # <<>> =>
        /\ AllWithoutGames(player_aggregates) =>
              /\ primary_threat[1].label.template = "Unknown Threat"
              /\ primary_threat[1].reason =
                     IF player_aggregates = <<>> THEN "insufficient data"
                     ELSE "no player data"
        /\ primary_threat[1].reason = "insufficient data" => player_aggregates = <<>>

\* C7 witness: the threat computed for one player with 0 games
C7_Witness ==
    /\ primary_threat # <<>>
    /\ Len(player_aggregates) = 1
    /\ player_aggregates[1].games = 0
    /\ primary_threat[1].reason = "no player data"

\* the impact rating C9 states: 100 * (min(avg_acs / 300, 1) * 0.6
\* + min(avg_kd / 1.5, 1) * 0.4), clamped to [0, 100]
ClaimedImpactRating(data) ==
    LET avg_acs == Rat(data.total_acs, data.games)
        avg_kd == Rat(data.total_kills, Max(data.total_deaths, 1))
        acs_term == RMin(RDiv(avg_acs, RInt(300)), RInt(1))
        kd_term == RMin(RDiv(avg_kd, Rat(15, 10)), RInt(1))
        rating == RMul(RInt(100), RAdd(RMul(acs_term, Rat(6, 10)),
                                       RMul(kd_term, Rat(4, 10))))
    IN RMin(RInt(100), RMax(RInt(0), rating))

\* C9: the profile of every player with at least one game carries the impact
\* rating 100 * (min(avg_acs/300, 1) * 0.6 + min(avg_kd/1.5, 1) * 0.4), clamped to
\* [0, 100]: 100 for avg_acs 300 and K/D 2.0, 50 for avg_acs 150 and K/D 0.75.
C9_ImpactRating ==
    player_behavior_profiles # <<>> =>
        \A i \in 1..Len(player_aggregates) :
            player_aggregates[i].games >= 1 =>
                \E j \in 1..Len(player_behavior_profiles[1]) :
                    /\ player_behavior_profiles[1][j].name = player_aggregates[i].name
                    /\ player_behavior_profiles[1][j].impact_rating
                           = ClaimedImpactRating(player_aggregates[i])

-----------------------------------------------------------------------------
(* Properties of a report over matches without player records *)

NoPlayerRecords(ms) == \A i \in 1..Len(ms) : ms[i].player_stats = <<>>

\* C11 as claimed: a report over a non-empty match sequence in which no match
\* carries a player record names "Unknown Threat" as its primary threat.
C11_Claimed_UnknownThreat ==
    (report # <<>> /\ matches # <<>> /\ NoPlayerRecords(matches)) =>
        report[1].summary.primary_threat = Plain("Unknown Threat")

\* C11 as amended: such a report is produced, its primary threat is the label
\* "Unknown (no player data available)", which its key takeaway repeats, and
\* its player lists are empty.
C11_NoPlayerDataThreat ==
    (report # <<>> /\ matches # <<>> /\ NoPlayerRecords(matches)) =>
        /\ report[1].summary.primary_threat = Plain("Unknown (no player data available)")
        /\ report[1].summary.key_takeaway.args[2]
               = Plain("Unknown (no player data available)")
        /\ report[1].player_stats = <<>>
        /\ report[1].player_behavior_profiles = <<>>
        /\ report[1].matches_analyzed = Len(matches)

\* C11 witness: a report over two matches without player records
C11_Witness ==
    /\ report # <<>>
    /\ Len(matches) = 2
    /\ NoPlayerRecords(matches)
    /\ report[1].summary.primary_threat.template = "Unknown (no player data available)"

-----------------------------------------------------------------------------
(* utils/cache.py: Cache.  The entry map _cache is the sequence of its      *)
(* entries [key, value, expiry] in insertion order; an optional value is    *)
(* <<>> for None and <<v>> otherwise; times are seconds.                    *)

RECURSIVE CacheIndex(_, _, _)
CacheIndex(c, key, i) ==
    IF i > Len(c) THEN 0
    ELSE IF c[i].key = key THEN i
    ELSE CacheIndex(c, key, i + 1)

\* del self._cache[key] at a known index
CacheRemoveAt(c, i) == SubSeq(c, 1, i - 1) \o SubSeq(c, i + 1, Len(c))

\* a variant of Expired that counts an entry as expired at its expiry time
ExpiredAtExpiry(t, expiry) == t >= expiry

\* datetime.now() > expiry
Expired(t, expiry) == t > expiry

\* Cache.get at time t: the value returned and the entry map left behind
Cache_get(c, key, t) ==
    LET i == CacheIndex(c, key, 1) IN
    IF i = 0 THEN [value |-> <<>>, cache |-> c]
    ELSE IF Expired(t, c[i].expiry) THEN [value |-> <<>>, cache |-> CacheRemoveAt(c, i)]
    ELSE [value |-> <<c[i].value>>, cache |-> c]

\* self._cache[key] = (value, expiry)
CacheStore(c, key, value, expiry) ==
    LET i == CacheIndex(c, key, 1)
        entry == [key |-> key, value |-> value, expiry |-> expiry]
    IN IF i = 0 THEN Append(c, entry) ELSE [c EXCEPT ![i] = entry]

\* Cache.set at time t; ttl_seconds is <<>> for None
Cache_set(c, default_ttl, key, value, ttl_seconds, t) ==
    LET ttl == IF ttl_seconds # <<>> THEN ttl_seconds[1] ELSE default_ttl
    IN CacheStore(c, key, value, t + ttl)

\* Cache.delete
Cache_delete(c, key) ==
    LET i == CacheIndex(c, key, 1) IN IF i = 0 THEN c ELSE CacheRemoveAt(c, i)

\* Cache.clear
Cache_clear(c) == <<>>

\* Cache.cleanup_expired at time t: the count returned and the entry map left
Cache_cleanup_expired(c, t) ==
    LET kept == SelectSeq(c, LAMBDA e : ~Expired(t, e.expiry))
    IN [removed |-> Len(c) - Len(kept), cache |-> kept]

\* the default TTLs of the three global instances
TeamCacheTtl == 86400

MatchCacheTtl == 3600

SeriesCacheTtl == 1800

-----------------------------------------------------------------------------
(* services/grid_service.py: GridService.  An upstream response is          *)
(* [status, errors, data, payload]: status "failed" when requests.post or   *)
(* raise_for_status raises; errors when the body has "errors"; data is      *)
(* "null" (no data), "empty" ({}), "null_field" (the queried field is null) *)
(* or "payload" (the edges of allSeries, the games of seriesState).  A call *)
(* of the client yields [raised, value, ...]: raised when an exception      *)
(* leaves the call, the caches as the call leaves them, the requests sent.  *)

Response(status, errors, data, payload) ==
    [status |-> status, errors |-> errors, data |-> data, payload |-> payload]

\* _execute_query: raises, or returns result.get("data", {})
_execute_query(r) ==
    IF r.status = "failed" THEN [raised |-> TRUE, value |-> r]
    ELSE IF r.errors /\ r.data \in {"null", "empty"} THEN [raised |-> TRUE, value |-> r]
    ELSE [raised |-> FALSE, value |-> r]

\* one upstream request, and whether _execute_query raised on it
Request(query, arg, r) ==
    [query |-> query, arg |-> arg, failed |-> _execute_query(r).raised]

\* [x for x in optionals if x], an optional being <<>> or <<x>>
Present(optionals) ==
    LET some == SelectSeq(optionals, LAMBDA o : o # <<>>)
    IN [i \in 1..Len(some) |-> some[i][1]]

\* the try block of get_recent_series
get_recent_series_try(mc, team_id, limit, r, t) ==
    LET q == _execute_query(r)
        sent == <<Request("GetTeamSeries", team_id, r)>>
    IN IF q.raised \/ r.data \in {"null", "null_field"}
       THEN [raised |-> TRUE, value |-> <<>>, cache |-> mc, sent |-> sent]
       ELSE LET edges == IF r.data = "payload" THEN r.payload ELSE <<>>
                series_list == Present(edges)
            IN [raised |-> FALSE, value |-> series_list,
                cache |-> Cache_set(mc, MatchCacheTtl, <<"series", team_id, limit>>,
                                    series_list, <<>>, t),
                sent |-> sent]

get_recent_series(mc, team_id, limit, r, t) ==
    LET hit == Cache_get(mc, <<"series", team_id, limit>>, t) IN
    IF hit.value # <<>> /\ hit.value[1] # <<>>
    THEN [raised |-> FALSE, value |-> hit.value[1], cache |-> hit.cache, sent |-> <<>>]
    ELSE LET try == get_recent_series_try(hit.cache, team_id, limit, r, t)
         IN IF try.raised THEN [try EXCEPT !.raised = FALSE, !.value = <<>>]
            ELSE try

\* the try block of get_series_state; the value is <<>> for None
get_series_state_try(sc, series_id, r, t) ==
    LET q == _execute_query(r)
        sent == <<Request("GetSeriesState", series_id, r)>>
    IN IF q.raised \/ r.data = "null"
       THEN [raised |-> TRUE, value |-> <<>>, cache |-> sc, sent |-> sent]
       ELSE IF r.data # "payload"
       THEN [raised |-> FALSE, value |-> <<>>, cache |-> sc, sent |-> sent]
       ELSE LET series_state == [games |-> r.payload]
            IN [raised |-> FALSE, value |-> <<series_state>>,
                cache |-> Cache_set(sc, SeriesCacheTtl, <<"series_state", series_id>>,
                                    series_state, <<>>, t),
                sent |-> sent]

\* a variant of get_series_state that lets the exception of the query pass
get_series_state_uncaught(sc, series_id, r, t) ==
    LET hit == Cache_get(sc, <<"series_state", series_id>>, t) IN
    IF hit.value # <<>>
    THEN [raised |-> FALSE, value |-> hit.value, cache |-> hit.cache, sent |-> <<>>]
    ELSE get_series_state_try(hit.cache, series_id, r, t)

get_series_state(sc, series_id, r, t) ==
    LET hit == Cache_get(sc, <<"series_state", series_id>>, t) IN
    IF hit.value # <<>>
    THEN [raised |-> FALSE, value |-> hit.value, cache |-> hit.cache, sent |-> <<>>]
    ELSE LET try == get_series_state_try(hit.cache, series_id, r, t)
         IN IF try.raised THEN [try EXCEPT !.raised = FALSE, !.value = <<>>]
            ELSE try

\* datetime.fromisoformat(s.replace("Z", "+00:00")) of the start times sampled;
\* <<>> for None, when the field is missing or does not parse
ParseDate(s) ==
    CASE s = "2026-01-15T18:00:00Z" -> <<2026, 1, 15>>
      [] s = "2026-02-03T20:30:00Z" -> <<2026, 2, 3>>
      [] OTHER -> <<>>

\* _parse_player_stats of a player of the series state query, which carries id,
\* name and character only: the counts fall back to 0 and num_rounds to 1
_parse_player_stats(player) ==
    PlayerMatchStats(player.id, player.name,
                     IF player.character # <<>> THEN player.character[1] ELSE "Unknown",
                     0, 0, 0, 0, 0, 0, 0)

\* the loop over game_teams: our score, result and players, their score
RECURSIVE GameTeamsFrom(_, _, _, _)
GameTeamsFrom(acc, game_teams, i, team_id) ==
    IF i > Len(game_teams) THEN acc
    ELSE LET gt == game_teams[i]
             next == IF gt.id = team_id
                     THEN [acc EXCEPT
                              !.team_score = gt.score,
                              !.won = gt.won,
                              !.player_stats =
                                  @ \o [p \in 1..Len(gt.players) |->
                                           _parse_player_stats(gt.players[p])]]
                     ELSE [acc EXCEPT !.opponent_score = gt.score]
         IN GameTeamsFrom(next, game_teams, i + 1, team_id)

\* the Match built from one game of a series
MatchOfGame(series_id, match_date, game, team_id) ==
    LET found == GameTeamsFrom([team_score |-> 0, opponent_score |-> 0, won |-> FALSE,
                                player_stats |-> <<>>], game.teams, 1, team_id)
    IN Match(series_id, match_date,
             IF game.map # <<>> THEN game.map[1] ELSE "Unknown",
             found.team_score, found.opponent_score, found.won, found.player_stats)

\* the loop of get_matches_with_stats over the series list from index i
RECURSIVE MatchesFrom(_, _, _, _, _, _)
MatchesFrom(acc, series_list, i, team_id, state_responses, t) ==
    IF i > Len(series_list) \/ acc.raised THEN acc
    ELSE LET series == series_list[i] IN
         IF series.id = ""
         THEN MatchesFrom(acc, series_list, i + 1, team_id, state_responses, t)
         ELSE LET state == get_series_state(acc.series_cache, series.id,
                                            state_responses[series.id], t)
                  games == IF state.value # <<>> THEN state.value[1].games ELSE <<>>
                  match_date == ParseDate(series.startTimeScheduled)
                  found == [g \in 1..Len(games) |->
                               MatchOfGame(series.id, match_date, games[g], team_id)]
              IN MatchesFrom([raised |-> state.raised,
                              value |-> IF state.raised THEN <<>> ELSE acc.value \o found,
                              match_cache |-> acc.match_cache,
                              series_cache |-> state.cache,
                              sent |-> acc.sent \o state.sent],
                             series_list, i + 1, team_id, state_responses, t)

\* get_matches_with_stats at time t, list_response answering the series list
\* query and state_responses[id] the series state query of series id
get_matches_with_stats(mc, sc, team_id, limit, list_response, state_responses, t) ==
    LET listed == get_recent_series(mc, team_id, limit, list_response, t)
    IN MatchesFrom([raised |-> listed.raised, value |-> <<>>,
                    match_cache |-> listed.cache, series_cache |-> sc,
                    sent |-> listed.sent],
                   listed.value, 1, team_id, state_responses, t)

\* Team.from_grid_response of the fields the routes read
Team(id, name) == [id |-> id, name |-> name]

\* GridService.get_team_by_id; the value is <<>> for None
get_team_by_id(tc, team_id, r, t) ==
    LET key == <<"team", team_id>>
        hit == Cache_get(tc, key, t)
        sent == <<Request("GetTeam", team_id, r)>>
    IN IF hit.value # <<>>
       THEN [raised |-> FALSE, value |-> hit.value, cache |-> hit.cache, sent |-> <<>>]
       ELSE IF _execute_query(r).raised \/ r.data = "null"
       THEN [raised |-> FALSE, value |-> <<>>, cache |-> hit.cache, sent |-> sent]
       ELSE IF r.data # "payload"
       THEN [raised |-> FALSE, value |-> <<>>, cache |-> hit.cache, sent |-> sent]
       ELSE LET team == r.payload[1]
            IN [raised |-> FALSE, value |-> <<team>>,
                cache |-> Cache_set(hit.cache, TeamCacheTtl, key, team, <<>>, t),
                sent |-> sent]

\* GridService.search_teams without a game filter
search_teams(tc, search_term, r, t) ==
    LET key == <<"team_search", Lower(search_term), "all">>
        hit == Cache_get(tc, key, t)
        sent == <<Request("SearchTeams", search_term, r)>>
    IN IF hit.value # <<>> /\ hit.value[1] # <<>>
       THEN [raised |-> FALSE, value |-> hit.value[1], cache |-> hit.cache, sent |-> <<>>]
       ELSE IF _execute_query(r).raised \/ r.data \in {"null", "null_field"}
       THEN [raised |-> FALSE, value |-> <<>>, cache |-> hit.cache, sent |-> sent]
       ELSE LET edges == IF r.data = "payload" THEN r.payload ELSE <<>> IN
            IF \E i \in 1..Len(edges) : edges[i] = <<>>
            THEN [raised |-> FALSE, value |-> <<>>, cache |-> hit.cache, sent |-> sent]
            ELSE LET teams == Present(edges)
                 IN [raised |-> FALSE, value |-> teams,
                     cache |-> Cache_set(hit.cache, TeamCacheTtl, key, teams, <<>>, t),
                     sent |-> sent]

-----------------------------------------------------------------------------
(* app.py: the routes.  A response is [status, code, report, matches]: the  *)
(* HTTP status, the "code" of an error body ("" when the body is not an     *)
(* error), and the optional report or match list of a successful body.      *)

GRID_API_KEY == "configured"

ErrorResponse(status, code) ==
    [status |-> status, code |-> code, report |-> <<>>, matches |-> <<>>]

\* validate_api_key
validate_api_key(api_key) == api_key # ""

\* str.strip of the names sampled
Strip(s) ==
    CASE s = "  " -> ""
      [] s = " Opponent " -> "Opponent"
      [] OTHER -> s

\* scout_team: the response and the caches it leaves.  req is the JSON body with
\* team_id ("" when missing), team_name and match_count.
scout_team(tc, mc, sc, api_key, req, team_response, list_response, state_responses, t) ==
    LET untouched == [team_cache |-> tc, match_cache |-> mc, series_cache |-> sc,
                      sent |-> <<>>]
        team_name == Strip(req.team_name)
        match_count == Min(req.match_count, 20)
    IN IF ~validate_api_key(api_key)
       THEN [response |-> ErrorResponse(500, "MISSING_API_KEY")] @@ untouched
       ELSE IF req.team_id = "" /\ team_name = ""
       THEN [response |-> ErrorResponse(400, "MISSING_TEAM")] @@ untouched
       ELSE LET lookup == IF req.team_id = ""
                          THEN LET found == search_teams(tc, team_name, team_response, t)
                               IN [found EXCEPT !.value =
                                      IF found.value = <<>> THEN <<>>
                                      ELSE <<found.value[1]>>]
                          ELSE get_team_by_id(tc, req.team_id, team_response, t)
            IN IF lookup.raised
               THEN [response |-> ErrorResponse(500, "REPORT_FAILED"),
                     team_cache |-> lookup.cache, match_cache |-> mc,
                     series_cache |-> sc, sent |-> lookup.sent]
               ELSE IF lookup.value = <<>>
               THEN [response |-> ErrorResponse(404, "TEAM_NOT_FOUND"),
                     team_cache |-> lookup.cache, match_cache |-> mc,
                     series_cache |-> sc, sent |-> lookup.sent]
               ELSE LET team == lookup.value[1]
                        team_id == IF req.team_id = "" THEN team.id ELSE req.team_id
                        fetched == get_matches_with_stats(mc, sc, team_id, match_count,
                                                          list_response, state_responses, t)
                    IN [response |->
                            IF fetched.raised THEN ErrorResponse(500, "REPORT_FAILED")
                            ELSE [status |-> 200, code |-> "",
                                  report |-> <<generate_scout_report(
                                                   team_id, team.name, fetched.value,
                                                   NoneStats)>>,
                                  matches |-> <<>>],
                        team_cache |-> lookup.cache,
                        match_cache |-> fetched.match_cache,
                        series_cache |-> fetched.series_cache,
                        sent |-> lookup.sent \o fetched.sent]

\* get_team_matches: GET /api/teams/<team_id>/matches
get_team_matches(mc, sc, api_key, team_id, limit, list_response, state_responses, t) ==
    IF ~validate_api_key(api_key)
    THEN [response |-> ErrorResponse(500, "MISSING_API_KEY"),
          match_cache |-> mc, series_cache |-> sc, sent |-> <<>>]
    ELSE LET fetched == get_matches_with_stats(mc, sc, team_id, Min(limit, 20),
                                               list_response, state_responses, t)
         IN [response |->
                 IF fetched.raised THEN ErrorResponse(500, "GET_FAILED")
                 ELSE [status |-> 200, code |-> "", report |-> <<>>,
                       matches |-> <<fetched.value>>],
             match_cache |-> fetched.match_cache,
             series_cache |-> fetched.series_cache,
             sent |-> fetched.sent]

-----------------------------------------------------------------------------
(* The GRID client and the routes serving calls against a sampled upstream *)

Failed == Response("failed", FALSE, "null", <<>>)

GraphQLErrors == Response("ok", TRUE, "null", <<>>)

NoData == Response("ok", FALSE, "null", <<>>)

NullField == Response("ok", FALSE, "null_field", <<>>)

Series(id, startTimeScheduled) == [id |-> id, startTimeScheduled |-> startTimeScheduled]

\* the series ids the series state query is asked for
SeriesIds == {"s1", "s2"}

\* the edges of allSeries: none, a null node, a series without id, two series
EdgeLists ==
    {<<>>,
     << <<>>, <<Series("s1", "2026-01-15T18:00:00Z")>> >>,
     << <<Series("", "soon")>>, <<Series("s2", "")>> >>,
     << <<Series("s1", "2026-01-15T18:00:00Z")>>, <<Series("s2", "2026-02-03T20:30:00Z")>> >>}

\* the answers to the series list query, one of them partial data with errors
ListResponses ==
    {Failed, GraphQLErrors, NullField}
    \cup {Response("ok", FALSE, "payload", edges) : edges \in EdgeLists}
    \cup {Response("ok", TRUE, "payload", << <<Series("s2", "")>> >>)}

Player(id, name, character) == [id |-> id, name |-> name, character |-> character]

GameTeam(id, score, won, players) ==
    [id |-> id, score |-> score, won |-> won, players |-> players]

Game(map, teams) == [map |-> map, teams |-> teams]

\* the games of a series state: one game with players; a game without a map
\* name followed by one without teams
GamesWithPlayers ==
    <<Game(<<"Haven">>,
           <<GameTeam("team-1", 13, TRUE,
                      <<Player("p1", "aspas", <<"Jett">>), Player("", "Less", <<>>)>>),
             GameTeam("team-2", 7, FALSE, <<Player("p9", "rival", <<"Sova">>)>>)>>)>>

GamesWithoutPlayers ==
    <<Game(<<>>, <<GameTeam("team-2", 13, TRUE, <<>>), GameTeam("team-1", 9, FALSE, <<>>)>>),
      Game(<<"Bind">>, <<>>)>>

\* the answers to the series state query, per series id
StateResponses ==
    {[id \in SeriesIds |-> Failed],
     [id \in SeriesIds |-> NullField],
     [id \in SeriesIds |->
         IF id = "s1" THEN Response("ok", FALSE, "payload", GamesWithPlayers) ELSE Failed],
     [id \in SeriesIds |->
         IF id = "s1" THEN NoData ELSE Response("ok", FALSE, "payload", GamesWithoutPlayers)],
     [id \in SeriesIds |->
         IF id = "s1" THEN Response("ok", FALSE, "payload", GamesWithPlayers)
         ELSE Response("ok", FALSE, "payload", <<>>)]}

\* the answers to the team queries, <<by id, by name>>: get_team_by_id reads
\* payload[1], search_teams the edges
TeamResponses ==
    {<<Failed, Failed>>,
     <<NullField, Response("ok", FALSE, "payload", <<>>)>>,
     <<Response("ok", FALSE, "payload", <<Team("team-1", "Opponent")>>),
       Response("ok", FALSE, "payload", << <<Team("team-1", "Opponent")>> >>)>>}

Upstreams ==
    {[team |-> tm[1], search |-> tm[2], list |-> l, state |-> st] :
        tm \in TeamResponses, l \in ListResponses, st \in StateResponses}

\* the bodies posted to /api/scout
ScoutRequests ==
    {[team_id |-> "team-1", team_name |-> "", match_count |-> 10],
     [team_id |-> "", team_name |-> " Opponent ", match_count |-> 25],
     [team_id |-> "", team_name |-> "  ", match_count |-> 10]}

\* the instants the clock is read at: in between the TTLs of the caches
ClockValues == {0, 1801, 3601}

InitService ==
    /\ AnalysisIdle
    /\ CacheIdle
    /\ now = 0
    /\ team_cache = <<>>
    /\ match_cache = <<>>
    /\ series_cache = <<>>
    /\ requests_sent = <<>>
    /\ grid_result = <<>>
    /\ response = <<>>
    /\ upstream \in Upstreams
    /\ calls = 0

\* get_matches_with_stats called on the client
GetMatchesWithStats ==
    /\ calls < MaxCalls
    /\ \E call \in {get_matches_with_stats(match_cache, series_cache, TeamId, 10,
                                              upstream.list, upstream.state, now)} :
          /\ grid_result' = <<[raised |-> call.raised, value |-> call.value,
                               upstream |-> upstream, match_cache |-> match_cache,
                               series_cache |-> series_cache]>>
          /\ match_cache' = call.match_cache
          /\ series_cache' = call.series_cache
          /\ requests_sent' = call.sent
    /\ calls' = calls + 1
    /\ UNCHANGED <<now, team_cache, response, upstream, analysis_vars, cache_vars>>

\* POST /api/scout
ScoutTeam ==
    /\ calls < MaxCalls
    /\ \E req \in ScoutRequests :
          \E call \in {scout_team(team_cache, match_cache, series_cache, GRID_API_KEY,
                                   req,
                                   IF req.team_id = "" THEN upstream.search
                                   ELSE upstream.team,
                                   upstream.list, upstream.state, now)} :
             /\ response' = <<[route |-> "scout", sent |-> call.sent] @@ call.response>>
             /\ team_cache' = call.team_cache
             /\ match_cache' = call.match_cache
             /\ series_cache' = call.series_cache
             /\ requests_sent' = call.sent
    /\ calls' = calls + 1
    /\ UNCHANGED <<now, grid_result, upstream, analysis_vars, cache_vars>>

\* GET /api/teams/<team_id>/matches
GetTeamMatches ==
    /\ calls < MaxCalls
    /\ \E call \in {get_team_matches(match_cache, series_cache, GRID_API_KEY, TeamId,
                                        10, upstream.list, upstream.state, now)} :
          /\ response' = <<[route |-> "matches", sent |-> call.sent] @@ call.response>>
          /\ match_cache' = call.match_cache
          /\ series_cache' = call.series_cache
          /\ requests_sent' = call.sent
    /\ calls' = calls + 1
    /\ UNCHANGED <<now, team_cache, grid_result, upstream, analysis_vars, cache_vars>>

\* time passes between two calls
Tick ==
    /\ calls < MaxCalls
    /\ \E t \in ClockValues : t > now /\ now' = t
    /\ UNCHANGED <<team_cache, match_cache, series_cache, requests_sent, grid_result,
                   response, upstream, calls, analysis_vars, cache_vars>>

\* the GRID API stops answering
UpstreamGoesDown ==
    /\ calls < MaxCalls
    /\ upstream.list # Failed
    /\ upstream' = [team |-> Failed, search |-> Failed, list |-> Failed,
                    state |-> [id \in SeriesIds |-> Failed]]
    /\ UNCHANGED <<now, team_cache, match_cache, series_cache, requests_sent,
                   grid_result, response, calls, analysis_vars, cache_vars>>

NextService ==
    \/ GetMatchesWithStats
    \/ ScoutTeam
    \/ GetTeamMatches
    \/ Tick
    \/ UpstreamGoesDown

SpecService == InitService /\ [][NextService]_vars

-----------------------------------------------------------------------------
(* Properties of the GRID client *)

\* the series list query of a call delivers no series
ListsNoSeries(r) ==
    _execute_query(r).raised \/ r.data # "payload" \/ Present(r.payload) = <<>>

\* the series state query of a series delivers no games
StatesNoGames(r) ==
    _execute_query(r).raised \/ r.data # "payload" \/ r.payload = <<>>

\* C12: get_matches_with_stats never raises, whether the series list query or a
\* series state query fails or the provider has no data: it returns a sequence of
\* matches of the listed series, which is empty when no series data is available
\* (no series listed or cached, or no games delivered or cached for any series).
C12_MatchesNeverRaise ==
    grid_result # <<>> =>
        LET call == grid_result[1] IN
        /\ ~call.raised
        /\ \A i \in 1..Len(call.value) : call.value[i].series_id \in SeriesIds
        /\ (ListsNoSeries(call.upstream.list) /\ call.match_cache = <<>>)
               => call.value = <<>>
        /\ ((\A id \in SeriesIds : StatesNoGames(call.upstream.state[id]))
                /\ call.series_cache = <<>>)
               => call.value = <<>>

\* C12 witness: two series are listed, the state query of the second one fails,
\* and the call returns the match of the first
C12_Witness ==
    /\ grid_result # <<>>
    /\ ~grid_result[1].raised
    /\ grid_result[1].upstream.list.data = "payload"
    /\ Len(Present(grid_result[1].upstream.list.payload)) = 2
    /\ grid_result[1].upstream.state["s2"] = Failed
    /\ Len(grid_result[1].value) = 1
    /\ Len(requests_sent) = 3

-----------------------------------------------------------------------------
(* Properties of the routes *)

\* an upstream request of the call that produced the response failed
UpstreamFailed(resp) == \E i \in 1..Len(resp.sent) : resp.sent[i].failed

\* C13: whenever an upstream request made while serving a scout-report request
\* fails, the route answers with an error carrying a machine-readable code, and
\* never with a successful report.
C13_UpstreamFailureGivesError ==
    (response # <<>> /\ response[1].route = "scout" /\ UpstreamFailed(response[1])) =>
        /\ response[1].status # 200
        /\ response[1].code # ""
        /\ response[1].report = <<>>

-----------------------------------------------------------------------------
(* utils/cache.py: one Cache used by several threads.  A thread runs one    *)
(* operation at a time, statement by statement; `with self._lock` is taken  *)
(* before the first statement of the block and released after its last.     *)
(* history holds the operation completed last: its result, and the result   *)
(* and entry map that the operations completed so far give when run one     *)
(* after the other, each with the clock values it read.                     *)

Threads == {1, 2}

CacheKeys == {"k1", "k2"}

\* default_ttl_seconds of Cache.__init__
DefaultTtl == 3600

\* the instants the clock is read at: on and just past the expiry of an entry
CacheClock == {0, 3600, 3601}

IdleThread ==
    [pc |-> "idle", op |-> "", key |-> "", value |-> "", t |-> 0, expiry |-> 0,
     found |-> "", keys |-> <<>>, removed |-> 0, seen |-> <<>>]

\* the operations a thread may begin: [op, key, value, ttl_seconds]
Operations(tid) ==
    {[op |-> "get", key |-> k, value |-> "", ttl |-> <<>>] : k \in CacheKeys}
    \cup {[op |-> "set", key |-> k, value |-> IF tid = 1 THEN "v1" ELSE "v2", ttl |-> ttl] :
             k \in CacheKeys, ttl \in {<<>>, <<0>>}}
    \cup {[op |-> "delete", key |-> "k1", value |-> "", ttl |-> <<>>],
          [op |-> "clear", key |-> "", value |-> "", ttl |-> <<>>],
          [op |-> "cleanup_expired", key |-> "", value |-> "", ttl |-> <<>>]}

\* a variant of LockFree for a lock that excludes nobody
LockFreeAlways(holder) == TRUE

\* threading.Lock: acquire succeeds when nobody holds the lock
LockFree(holder) == holder = 0

\* the entry map the completed operations give when run one after the other
SequentialCache == IF history = <<>> THEN <<>> ELSE history[1].cache

\* the outcome of the operation of thread th run alone on entry map c
Sequential(th, c) ==
    CASE th.op = "get" ->
            LET r == Cache_get(c, th.key, th.t) IN [result |-> r.value, cache |-> r.cache]
      [] th.op = "set" ->
            [result |-> <<>>, cache |-> CacheStore(c, th.key, th.value, th.expiry)]
      [] th.op = "delete" -> [result |-> <<>>, cache |-> Cache_delete(c, th.key)]
      [] th.op = "clear" -> [result |-> <<>>, cache |-> Cache_clear(c)]
      [] OTHER ->
            LET r == Cache_cleanup_expired(c, th.t)
            IN [result |-> <<r.removed>>, cache |-> r.cache]

\* the thread leaves the with block (releasing the lock) and returns or raises
Finish(tid, th, result, raised) ==
    /\ lock' = 0
    /\ threads' = [threads EXCEPT ![tid] = IdleThread]
    /\ history' = <<[tid |-> tid, op |-> th.op, key |-> th.key, t |-> th.t,
                     result |-> result, raised |-> raised, before |-> cache,
                     locked |-> th.seen,
                     expected |-> Sequential(th, SequentialCache).result,
                     cache |-> Sequential(th, SequentialCache).cache]>>

\* what the operations of the shared Cache leave alone
outside_cache ==
    <<analysis_vars, team_cache, match_cache, series_cache, requests_sent, grid_result,
      response, upstream>>

InitCache ==
    /\ AnalysisIdle
    /\ team_cache = <<>>
    /\ match_cache = <<>>
    /\ series_cache = <<>>
    /\ requests_sent = <<>>
    /\ grid_result = <<>>
    /\ response = <<>>
    /\ upstream = <<>>
    /\ calls = 0
    /\ now = 0
    /\ cache = <<>>
    /\ lock = 0
    /\ threads = [tid \in Threads |-> IdleThread]
    /\ history = <<>>

\* a thread calls an operation; set and cleanup_expired read the clock before
\* they take the lock
Begin(tid) ==
    /\ threads[tid].pc = "idle"
    /\ calls < MaxOps
    /\ \E o \in Operations(tid) :
          threads' = [threads EXCEPT ![tid] =
              [IdleThread EXCEPT
                  !.pc = "lock", !.op = o.op, !.key = o.key, !.value = o.value,
                  !.t = now,
                  !.expiry = now + (IF o.ttl # <<>> THEN o.ttl[1] ELSE DefaultTtl)]]
    /\ calls' = calls + 1
    /\ UNCHANGED <<cache, lock, history, now, outside_cache>>

\* with self._lock
Acquire(tid) ==
    /\ threads[tid].pc = "lock"
    /\ LockFree(lock)
    /\ lock' = tid
    /\ threads' = [threads EXCEPT ![tid].pc = threads[tid].op, ![tid].seen = cache]
    /\ UNCHANGED <<cache, history, now, calls, outside_cache>>

\* get: if key not in self._cache: return None
GetCheck(tid) ==
    /\ threads[tid].pc = "get"
    /\ IF CacheIndex(cache, threads[tid].key, 1) = 0
       THEN Finish(tid, threads[tid], <<>>, FALSE)
       ELSE /\ threads' = [threads EXCEPT ![tid].pc = "get_read"]
            /\ UNCHANGED <<lock, history>>
    /\ UNCHANGED <<cache, now, calls, outside_cache>>

\* get: value, expiry = self._cache[key], a KeyError when the key is gone
GetRead(tid) ==
    /\ threads[tid].pc = "get_read"
    /\ LET i == CacheIndex(cache, threads[tid].key, 1) IN
       IF i = 0
       THEN Finish(tid, threads[tid], <<>>, TRUE)
       ELSE /\ threads' = [threads EXCEPT ![tid].pc = "get_expiry",
                                          ![tid].found = cache[i].value,
                                          ![tid].expiry = cache[i].expiry]
            /\ UNCHANGED <<lock, history>>
    /\ UNCHANGED <<cache, now, calls, outside_cache>>

\* get: if datetime.now() > expiry: del self._cache[key]; return None
\*      return value
GetExpiry(tid) ==
    /\ threads[tid].pc = "get_expiry"
    /\ LET th == [threads[tid] EXCEPT !.t = now]
           i == CacheIndex(cache, th.key, 1)
       IN IF Expired(now, th.expiry)
          THEN IF i = 0
               THEN Finish(tid, th, <<>>, TRUE) /\ UNCHANGED cache
               ELSE Finish(tid, th, <<>>, FALSE) /\ cache' = CacheRemoveAt(cache, i)
          ELSE Finish(tid, th, <<th.found>>, FALSE) /\ UNCHANGED cache
    /\ UNCHANGED <<now, calls, outside_cache>>

\* set: self._cache[key] = (value, expiry)
SetStore(tid) ==
    /\ threads[tid].pc = "set"
    /\ cache' = CacheStore(cache, threads[tid].key, threads[tid].value,
                           threads[tid].expiry)
    /\ Finish(tid, threads[tid], <<>>, FALSE)
    /\ UNCHANGED <<now, calls, outside_cache>>

\* delete: self._cache.pop(key, None)
DeletePop(tid) ==
    /\ threads[tid].pc = "delete"
    /\ cache' = Cache_delete(cache, threads[tid].key)
    /\ Finish(tid, threads[tid], <<>>, FALSE)
    /\ UNCHANGED <<now, calls, outside_cache>>

\* clear: self._cache.clear()
ClearAll(tid) ==
    /\ threads[tid].pc = "clear"
    /\ cache' = <<>>
    /\ Finish(tid, threads[tid], <<>>, FALSE)
    /\ UNCHANGED <<now, calls, outside_cache>>

\* a variant of CleanupScan that compares with the clock read under the lock
CleanupScan_clock_under_lock(tid) ==
    /\ threads[tid].pc = "cleanup_expired"
    /\ LET expired == SelectSeq(cache, LAMBDA e : Expired(now, e.expiry))
       IN threads' = [threads EXCEPT
                         ![tid].pc = "cleanup_del",
                         ![tid].keys = [i \in 1..Len(expired) |-> expired[i].key]]
    /\ UNCHANGED <<cache, lock, history, now, calls, outside_cache>>

\* cleanup_expired: expired_keys = [k for k, (_, expiry) in ... if now > expiry]
CleanupScan(tid) ==
    /\ threads[tid].pc = "cleanup_expired"
    /\ LET expired == SelectSeq(cache, LAMBDA e : Expired(threads[tid].t, e.expiry))
       IN threads' = [threads EXCEPT
                         ![tid].pc = "cleanup_del",
                         ![tid].keys = [i \in 1..Len(expired) |-> expired[i].key]]
    /\ UNCHANGED <<cache, lock, history, now, calls, outside_cache>>

\* cleanup_expired: one round of the loop `del self._cache[key]; removed += 1`, a
\* KeyError when the key is gone; return removed after the last round
CleanupDel(tid) ==
    /\ threads[tid].pc = "cleanup_del"
    /\ LET th == threads[tid] IN
       IF th.keys = <<>>
       THEN Finish(tid, th, <<th.removed>>, FALSE) /\ UNCHANGED cache
       ELSE LET i == CacheIndex(cache, Head(th.keys), 1) IN
            IF i = 0
            THEN Finish(tid, th, <<>>, TRUE) /\ UNCHANGED cache
            ELSE /\ cache' = CacheRemoveAt(cache, i)
                 /\ threads' = [threads EXCEPT ![tid].keys = Tail(th.keys),
                                               ![tid].removed = th.removed + 1]
                 /\ UNCHANGED <<lock, history>>
    /\ UNCHANGED <<now, calls, outside_cache>>

\* time passes
CacheTick ==
    /\ \E t \in CacheClock : t > now /\ now' = t
    /\ UNCHANGED <<cache, lock, threads, history, calls, outside_cache>>

NextCache ==
    \/ \E tid \in Threads :
          \/ Begin(tid)
          \/ Acquire(tid)
          \/ GetCheck(tid)
          \/ GetRead(tid)
          \/ GetExpiry(tid)
          \/ SetStore(tid)
          \/ DeletePop(tid)
          \/ ClearAll(tid)
          \/ CleanupScan(tid)
          \/ CleanupDel(tid)
    \/ CacheTick

SpecCache == InitCache /\ [][NextCache]_vars

-----------------------------------------------------------------------------
(* Properties of the shared Cache *)

\* the threads inside a `with self._lock` block
InCritical == {tid \in Threads : threads[tid].pc \notin {"idle", "lock"}}

\* C14: under every interleaving of get, set, delete, clear and cleanup_expired
\* by concurrent threads, at most one operation is inside the locked block that
\* reads or writes the entry map, no operation raises, and the result of every
\* operation and the entry map it leaves equal those of the operations run one
\* after the other in the order of their locking, each with the clock it read.
C14_CacheAtomic ==
    /\ Cardinality(InCritical) <= 1
    /\ history # <<>> =>
          /\ ~history[1].raised
          /\ history[1].result = history[1].expected
    /\ InCritical = {} => cache = SequentialCache

\* C14 witness: thread 1 completes a get that returns the value set by thread 2
\* while thread 2 waits for the lock with its next operation
C14_Witness ==
    /\ history # <<>>
    /\ history[1].tid = 1
    /\ history[1].op = "get"
    /\ history[1].result = <<"v2">>
    /\ threads[2].pc = "lock"
    /\ threads[2].op = "clear"

\* C15: Cache.get never returns a value whose expiry is strictly earlier than the
\* time of the read: for such a key it returns None and removes the entry; for a
\* key whose entry is present and read at or before its expiry it returns the
\* value of the entry, which is the value last set.
C15_GetRespectsExpiry ==
    (history # <<>> /\ history[1].op = "get") =>
        LET h == history[1]
            i == CacheIndex(h.before, h.key, 1)
        IN /\ (i # 0 /\ h.before[i].expiry < h.t) =>
                  /\ h.result = <<>>
                  /\ CacheIndex(cache, h.key, 1) = 0
           /\ (i # 0 /\ h.before[i].expiry >= h.t) => h.result = <<h.before[i].value>>
           /\ i = 0 => h.result = <<>>

\* C15 witness: a get at 3601 of an entry that expired at 3600 returns None and
\* removes the entry
C15_Witness ==
    /\ history # <<>>
    /\ history[1].op = "get"
    /\ history[1].t = 3601
    /\ \E i \in 1..Len(history[1].before) :
          /\ history[1].before[i].key = history[1].key
          /\ history[1].before[i].expiry = 3600
    /\ history[1].result = <<>>
    /\ CacheIndex(cache, history[1].key, 1) = 0

-----------------------------------------------------------------------------
(* Properties of the team-level functions called without matches *)

\* C16 as claimed: given an empty match sequence, _generate_team_composition and
\* _generate_economy_tendency both return None, whatever the player aggregates.
C16_Claimed_NoneWithoutMatches ==
    matches = <<>> =>
        /\ team_composition # <<>> => team_composition[1] = <<>>
        /\ economy_tendency # <<>> => economy_tendency[1] = <<>>

\* C16 as amended: given an empty match sequence, _generate_economy_tendency
\* returns None whatever the aggregates, and _generate_team_composition returns
\* None exactly when the aggregates are empty too; given aggregates it returns a
\* composition.
C16_NoneWithoutMatches ==
    matches = <<>> =>
        /\ team_composition # <<>> =>
              (team_composition[1] = <<>> <=> player_aggregates = <<>>)
        /\ economy_tendency # <<>> => economy_tendency[1] = <<>>

\* C16 witness: both functions called with aggregates and no matches
C16_Witness ==
    /\ matches = <<>>
    /\ player_aggregates # <<>>
    /\ team_composition # <<>>
    /\ team_composition[1] # <<>>
    /\ economy_tendency = << <<>> >>


-----------------------------------------------------------------------------
(* The score and the category of every recommendation *)

\* games_played of the opponent's entry for the map, 0 without one
TheirGamesOn(map_name) ==
    IF TheirEntry(map_name) = <<>> THEN 0 ELSE TheirEntry(map_name)[1].games_played

\* rec.score is 0.5 * our_win_rate - 0.5 * their_win_rate, times 0.8 under three games
ScoreIsDiscountedDifferential(rec) ==
    LET a == rec.our_win_rate[1]
        b == rec.our_win_rate[2]
        c == rec.their_win_rate[1]
        e == rec.their_win_rate[2]
        n == rec.score[1]
        d == rec.score[2]
    IN IF TheirGamesOn(rec.map_name) < 3
       THEN n * 2 * b * e * 5 = (a * e - c * b) * 4 * d
       ELSE n * 2 * b * e = (a * e - c * b) * d

\* the category that the thresholds give to rec.score
CategoryByScore(rec) ==
    LET n == rec.score[1]
        d == rec.score[2]
        strong == 10 * rec.their_win_rate[1] >= 7 * rec.their_win_rate[2]
                     /\ TheirGamesOn(rec.map_name) >= 2
        weak == 10 * rec.their_win_rate[1] <= 4 * rec.their_win_rate[2]
                   /\ TheirGamesOn(rec.map_name) >= 2
    IN CASE strong -> IF 100 * n <= -15 * d THEN "MUST_BAN" ELSE "BAN"
         [] ~strong /\ weak -> IF 100 * n >= 15 * d THEN "MUST_PICK" ELSE "PICK"
         [] OTHER -> IF 100 * n >= 15 * d THEN "MUST_PICK"
                     ELSE IF 100 * n >= 5 * d THEN "PICK"
                     ELSE IF 100 * n <= -15 * d THEN "MUST_BAN"
                     ELSE IF 100 * n <= -5 * d THEN "BAN"
                     ELSE "NEUTRAL"

-----------------------------------------------------------------------------
(* NEUTRAL and the middle band *)

\* C18: a recommendation is NEUTRAL only when the opponent's win rate on the map
\* lies in the 40-70% middle band and the score is small, |score| < 0.05; no map
\* with an opponent win rate below 0.40 or above 0.70 is NEUTRAL, whatever the
\* number of games the opponent played on it.
C18_NeutralOnlyInMiddleBand ==
    veto_recommendations # <<>> =>
        \A i \in 1..Len(veto_recommendations[1]) :
            LET rec == veto_recommendations[1][i] IN
            rec.recommendation = "NEUTRAL" =>
                /\ 10 * rec.their_win_rate[1] >= 4 * rec.their_win_rate[2]
                /\ 10 * rec.their_win_rate[1] <= 7 * rec.their_win_rate[2]
                /\ 100 * rec.score[1] < 5 * rec.score[2]
                /\ 100 * rec.score[1] > -5 * rec.score[2]


-----------------------------------------------------------------------------
(* The rates that enter the score *)

\* our own MapStats for the map in our_team_stats['map_stats'], matched without
\* letter case; of several, the dict keeps the last
OwnEntry(map_name) ==
    LET hits == {i \in 1..Len(our_team_stats.map_stats) :
                    Lower(our_team_stats.map_stats[i].map_name) = Lower(map_name)}
    IN IF hits = {} THEN <<>>
       ELSE <<our_team_stats.map_stats[CHOOSE i \in hits : \A j \in hits : j <= i]>>

\* our_team_stats is a non-empty dict that has the key 'map_stats'
OwnStatsUsed == ~our_team_stats.none /\ "map_stats" \in our_team_stats.keys

\* wins over wins + losses of a MapStats record, as a pair in lowest terms
EntryRate(e) == Rat(e.wins, IF e.wins + e.losses = 0 THEN 1 ELSE e.wins + e.losses)

\* their_win_rate is the opponent's rate on the map or 0.5 without an entry, and
\* without an entry the score carries the penalty of their_gp = 0
TheirSideOf(rec) ==
    IF TheirEntry(rec.map_name) = <<>>
    THEN /\ rec.their_win_rate = <<1, 2>>
         /\ rec.score[1] * 2 * rec.our_win_rate[2] * 2 * 5
               = (rec.our_win_rate[1] * 2 - rec.our_win_rate[2]) * 4 * rec.score[2]
    ELSE rec.their_win_rate = EntryRate(TheirEntry(rec.map_name)[1])

\* C19 as claimed: our_wr is our own win rate on the map when own-team stats give
\* one, otherwise the baseline default of the map, 0.5 only for a map absent
\* from the baseline; their_wr is the opponent's rate or 0.5 without data, and
\* their_gp is 0 without data.
C19_Claimed_BaselineUnlessOwnRate ==
    veto_recommendations # <<>> =>
        \A i \in 1..Len(veto_recommendations[1]) :
            LET rec == veto_recommendations[1][i] IN
            /\ rec.our_win_rate =
                  IF OwnEntry(rec.map_name) # <<>>
                  THEN EntryRate(OwnEntry(rec.map_name)[1])
                  ELSE DemoOurRate(Lower(rec.map_name))
            /\ TheirSideOf(rec)

\* C19: when our_team_stats is a non-empty dict with the key 'map_stats', our_wr
\* is our own win rate on the map and 0.5 for a map our stats do not list,
\* whatever the baseline says; when our_team_stats is None, empty or lacks the
\* key, our_wr is the baseline default of the map; their_wr is the opponent's
\* rate or 0.5 without data, and their_gp is 0 without data.
C19_OwnRateOrHalfElseBaseline ==
    veto_recommendations # <<>> =>
        \A i \in 1..Len(veto_recommendations[1]) :
            LET rec == veto_recommendations[1][i] IN
            /\ rec.our_win_rate =
                  IF OwnStatsUsed
                  THEN IF OwnEntry(rec.map_name) # <<>>
                       THEN EntryRate(OwnEntry(rec.map_name)[1])
                       ELSE <<1, 2>>
                  ELSE DemoOurRate(Lower(rec.map_name))
            /\ TheirSideOf(rec)

\* C19 witness: own stats are supplied and list Haven only, and the
\* recommendation for Abyss, on which the opponent has no data either, carries
\* 0.5 on both sides although the baseline for Abyss is 0.53
C19_Witness ==
    /\ veto_recommendations # <<>>
    /\ OwnStatsUsed
    /\ OwnEntry("Haven") # <<>>
    /\ \E i \in 1..Len(veto_recommendations[1]) :
          LET rec == veto_recommendations[1][i] IN
          /\ rec.map_name = "Abyss"
          /\ OwnEntry("Abyss") = <<>>
          /\ TheirEntry("Abyss") = <<>>
          /\ rec.our_win_rate = <<1, 2>>
          /\ rec.their_win_rate = <<1, 2>>
          /\ DemoOurRate("abyss") # <<1, 2>>


-----------------------------------------------------------------------------
(* The attack and defense estimates of the map pool matrix *)

\* e.attack_win_rate = min(0.9 * w/t, 1.0) and e.defense_win_rate = min(1.1 * w/t, 1.0)
EstimatedFrom(e, w, t) ==
    /\ IF 9 * w <= 10 * t
       THEN e.attack_win_rate[1] * 10 * t = 9 * w * e.attack_win_rate[2]
       ELSE e.attack_win_rate = <<1, 1>>
    /\ IF 11 * w <= 10 * t
       THEN e.defense_win_rate[1] * 10 * t = 11 * w * e.defense_win_rate[2]
       ELSE e.defense_win_rate = <<1, 1>>

\* the entry that a map without statistics gets
AllZero(e) ==
    /\ e.games_played = 0
    /\ e.win_rate[1] = 0
    /\ e.attack_win_rate[1] = 0
    /\ e.defense_win_rate[1] = 0
    /\ e.avg_round_diff[1] = 0

\* the statistics entry recorded rounds: avg_rounds_won + avg_rounds_lost > 0
RoundsRecorded(ms) ==
    ms.avg_rounds_won[1] * ms.avg_rounds_lost[2]
        + ms.avg_rounds_lost[1] * ms.avg_rounds_won[2] > 0

\* C20 as claimed: every canonical map matched without letter case by a MapStats
\* entry has attack_win_rate = min(win_rate*0.9, 1.0) and defense_win_rate =
\* min(win_rate*1.1, 1.0); the 0.5/0.5 split never appears in the matrix; an
\* unmatched map gets an all-zero entry.
C20_Claimed_EstimatesNeverHalf ==
    map_pool_matrix # <<>> =>
        \A i \in 1..Len(map_pool_matrix[1]) :
            LET e == map_pool_matrix[1][i]
                hit == TheirEntry(e.map_name)
            IN /\ hit # <<>> =>
                     EstimatedFrom(e, hit[1].wins,
                                   IF hit[1].wins + hit[1].losses = 0 THEN 1
                                   ELSE hit[1].wins + hit[1].losses)
               /\ hit = <<>> => AllZero(e)
               /\ ~(e.attack_win_rate = <<1, 2>> /\ e.defense_win_rate = <<1, 2>>)

\* C20: a matched canonical map whose entry recorded rounds has attack_win_rate
\* = min(win_rate*0.9, 1.0) and defense_win_rate = min(win_rate*1.1, 1.0); a
\* matched map whose entry recorded no rounds has 0.5 for both, whatever its
\* win rate; an unmatched map gets an all-zero entry.
C20_EstimatesOrHalfWithoutRounds ==
    map_pool_matrix # <<>> =>
        \A i \in 1..Len(map_pool_matrix[1]) :
            LET e == map_pool_matrix[1][i]
                hit == TheirEntry(e.map_name)
            IN /\ (hit # <<>> /\ RoundsRecorded(hit[1])) =>
                     EstimatedFrom(e, hit[1].wins,
                                   IF hit[1].wins + hit[1].losses = 0 THEN 1
                                   ELSE hit[1].wins + hit[1].losses)
               /\ (hit # <<>> /\ ~RoundsRecorded(hit[1])) =>
                     (e.attack_win_rate = <<1, 2>> /\ e.defense_win_rate = <<1, 2>>)
               /\ hit = <<>> => AllZero(e)

\* C20 witness: Haven is matched by an entry spelt "haven" that recorded rounds
\* and only wins, so that its defense estimate is capped at 1.0 and its attack
\* estimate is 0.9, next to the all-zero entry of Abyss
C20_Witness ==
    /\ map_pool_matrix # <<>>
    /\ TheirEntry("Haven") # <<>>
    /\ TheirEntry("Haven")[1].map_name = "haven"
    /\ RoundsRecorded(TheirEntry("Haven")[1])
    /\ TheirEntry("Haven")[1].losses = 0
    /\ \E i \in 1..Len(map_pool_matrix[1]) :
          LET e == map_pool_matrix[1][i] IN
          /\ e.map_name = "Haven"
          /\ e.attack_win_rate = <<9, 10>>
          /\ e.defense_win_rate = <<1, 1>>
    /\ \E i \in 1..Len(map_pool_matrix[1]) :
          /\ map_pool_matrix[1][i].map_name = "Abyss"
          /\ AllZero(map_pool_matrix[1][i])


-----------------------------------------------------------------------------
(* The player named as primary threat *)

\* 0.4 * (avg_acs / 300) + 0.3 * avg_kd + 0.3 * fb_rate of an aggregate with games
ClaimedThreatScore(data) ==
    RAdd(RAdd(Rat(4 * data.total_acs, 3000 * data.games),
              Rat(3 * data.total_kills, 10 * Max(data.total_deaths, 1))),
         Rat(3 * data.total_first_bloods,
             10 * Max(data.total_first_bloods + data.total_first_deaths, 1)))

\* the positions of the aggregates with at least one game
WithGames == {i \in 1..Len(player_aggregates) : player_aggregates[i].games >= 1}

\* the first position, in the order of the mapping, of a player with games whose
\* score no other player with games exceeds
FirstOfMaximalThreat ==
    CHOOSE i \in WithGames :
        /\ \A j \in WithGames :
              RGe(ClaimedThreatScore(player_aggregates[i]),
                  ClaimedThreatScore(player_aggregates[j]))
        /\ \A j \in WithGames :
              j < i => RLt(ClaimedThreatScore(player_aggregates[j]),
                           ClaimedThreatScore(player_aggregates[i]))

\* C21: when a player has at least one game, the primary threat is the player
\* with games of maximal threat_score = 0.4*(avg_acs/300) + 0.3*avg_kd +
\* 0.3*fb_rate, the first of them in the order of the mapping when several tie,
\* and the reason is "aggressive opener" for fb_rate > 0.6, else "high impact"
\* for avg_acs > 250, else "key player".
C21_ThreatIsFirstOfMaximal ==
    (primary_threat # <<>> /\ WithGames # {}) =>
        LET top == player_aggregates[FirstOfMaximalThreat] IN
        /\ primary_threat[1].label.template = "{} ({})"
        /\ primary_threat[1].label.args[1] = top.name
        /\ primary_threat[1].reason =
              IF 10 * top.total_first_bloods
                    > 6 * Max(top.total_first_bloods + top.total_first_deaths, 1)
              THEN "aggressive opener"
              ELSE IF top.total_acs > 250 * top.games THEN "high impact"
              ELSE "key player"

\* C21 witness: two players with games tie on the maximal score, the one that
\* comes first in the mapping is named, and its reason is "high impact"
C21_Witness ==
    /\ primary_threat # <<>>
    /\ Len(player_aggregates) >= 2
    /\ player_aggregates[1].games >= 1
    /\ player_aggregates[2].games >= 1
    /\ ClaimedThreatScore(player_aggregates[1]) = ClaimedThreatScore(player_aggregates[2])
    /\ primary_threat[1].label.args[1] = player_aggregates[1].name
    /\ primary_threat[1].reason = "high impact"


-----------------------------------------------------------------------------
(* _generate_tactical_insights called on drawn aggregates, map statistics and
   matches *)

\* no aggregates, one player, or two players, each with any of the StatLines
InsightAggregates ==
    {<<>>}
    \cup {<<DrawnAggregate("p1", l)>> : l \in StatLines}
    \cup {<<DrawnAggregate("p1", l1), DrawnAggregate("p2", l2)>> :
             l1 \in StatLines, l2 \in StatLines}

\* wins and losses on one map: 0%, 33%, 50%, 75% and 100% on two games or more,
\* and 0% and 100% on a single game
InsightWinLoss == {<<0, 2>>, <<1, 2>>, <<1, 1>>, <<3, 1>>, <<2, 0>>, <<1, 0>>, <<0, 1>>}

\* the maps the statistics are about
InsightMapNames == {"Haven", "Bind"}

\* the map statistics as _analyze_map_performance returns them: one entry per
\* name, ordered by win rate, non-increasing
InsightStatsLists ==
    {list \in SeqsUpTo({DrawnMapStats(n, wl, TRUE) :
                           n \in InsightMapNames, wl \in InsightWinLoss},
                       MaxStats) :
        /\ DistinctNames(list)
        /\ \A i \in 1..Len(list) - 1 : RGe(win_rate(list[i]), win_rate(list[i + 1]))}

\* no match, a clear win, a close win, a clear loss, and a close win after a
\* clear loss
InsightMatches ==
    {<<>>,
     <<Match("s1", <<>>, "Haven", 13, 4, TRUE, <<>>)>>,
     <<Match("s1", <<>>, "Haven", 13, 11, TRUE, <<>>)>>,
     <<Match("s1", <<>>, "Haven", 5, 13, FALSE, <<>>)>>,
     <<Match("s1", <<>>, "Haven", 5, 13, FALSE, <<>>),
       Match("s2", <<>>, "Bind", 13, 11, TRUE, <<>>)>>}

InitInsights ==
    /\ player_aggregates \in InsightAggregates
    /\ their_map_stats \in InsightStatsLists
    /\ matches \in InsightMatches
    /\ our_team_stats = NoneStats
    /\ report = <<>>
    /\ veto_recommendations = <<>>
    /\ map_pool_matrix = <<>>
    /\ primary_threat = <<>>
    /\ player_behavior_profiles = <<>>
    /\ team_composition = <<>>
    /\ economy_tendency = <<>>
    /\ tactical_insights = <<>>
    /\ aggregated = <<>>
    /\ ServiceIdle
    /\ CacheIdle

GenerateTacticalInsights ==
    /\ tactical_insights = <<>>
    /\ tactical_insights' =
           <<_generate_tactical_insights(player_aggregates, their_map_stats, matches)>>
    /\ UNCHANGED <<matches, our_team_stats, report, their_map_stats,
                   veto_recommendations, map_pool_matrix, player_aggregates,
                   primary_threat, player_behavior_profiles, team_composition,
                   economy_tendency, aggregated, service_vars, cache_vars>>

NextInsights == GenerateTacticalInsights

SpecInsights == InitInsights /\ [][NextInsights]_vars

-----------------------------------------------------------------------------
(* Properties of the tactical insights *)

\* the positions of the map statistics under 40% on two games or more
WeakPositions ==
    {i \in 1..Len(their_map_stats) :
        /\ 10 * their_map_stats[i].wins
              < 4 * Max(their_map_stats[i].wins + their_map_stats[i].losses, 1)
        /\ their_map_stats[i].games_played >= 2}

\* the positions of the map statistics over 70% on two games or more
StrongPositions ==
    {i \in 1..Len(their_map_stats) :
        /\ 10 * their_map_stats[i].wins
              > 7 * Max(their_map_stats[i].wins + their_map_stats[i].losses, 1)
        /\ their_map_stats[i].games_played >= 2}

\* wins of i over games of i is at most wins of j over games of j
RateAtMost(i, j) ==
    their_map_stats[i].wins * Max(their_map_stats[j].wins + their_map_stats[j].losses, 1)
        <= their_map_stats[j].wins
              * Max(their_map_stats[i].wins + their_map_stats[i].losses, 1)

\* the picks of duelists and of all agents over all aggregates
PicksOfAll(role_set) ==
    SumSeq([i \in 1..Len(player_aggregates) |->
               PicksIn(player_aggregates[i].agents, role_set)])

TotalPicksOfAll ==
    SumSeq([i \in 1..Len(player_aggregates) |-> SumValues(player_aggregates[i].agents)])

\* the positions of the aggregates with the highest ACS per game
StarPositions ==
    {i \in 1..Len(player_aggregates) :
        \A j \in 1..Len(player_aggregates) :
            player_aggregates[i].total_acs * Max(player_aggregates[j].games, 1)
                >= player_aggregates[j].total_acs * Max(player_aggregates[i].games, 1)}

RoundDiffSum ==
    SumSeq([i \in 1..Len(matches) |-> matches[i].team_score - matches[i].opponent_score])

\* the titles that template k may contribute on the drawn input; none when its
\* trigger does not hold
TemplateTitles(k) ==
    CASE k = 1 ->
           LET kills == SumSeq([i \in 1..Len(player_aggregates) |->
                                   player_aggregates[i].total_kills])
               deaths == Max(SumSeq([i \in 1..Len(player_aggregates) |->
                                        player_aggregates[i].total_deaths]), 1)
           IN IF 100 * kills > 115 * deaths THEN {Plain("High Fragging Team")}
              ELSE IF 100 * kills < 95 * deaths THEN {Plain("Vulnerable to Aggression")}
              ELSE {}
      [] k = 2 ->
           {Text("Neutralize {}", <<player_aggregates[i].name>>) :
               i \in {j \in StarPositions :
                         /\ \A h \in StarPositions : j <= h
                         /\ player_aggregates[j].games > 0
                         /\ player_aggregates[j].total_acs
                               > 270 * player_aggregates[j].games}}
      [] k = 3 ->
           {Text("Exploit {}", <<their_map_stats[i].map_name>>) :
               i \in {j \in WeakPositions : \A h \in WeakPositions : RateAtMost(j, h)}}
      [] k = 4 ->
           {Text("Avoid {}", <<their_map_stats[i].map_name>>) :
               i \in {j \in StrongPositions : \A h \in StrongPositions : RateAtMost(h, j)}}
      [] k = 5 ->
           IF TotalPicksOfAll > 0 /\ 100 * PicksOfAll(Duelists) > 35 * TotalPicksOfAll
           THEN {Plain("Duelist Heavy Comp")} ELSE {}
      [] k = 6 ->
           IF 10 * Cardinality({i \in 1..Len(matches) :
                                   Abs(matches[i].team_score - matches[i].opponent_score) <= 3})
                 > 4 * Len(matches)
           THEN {Plain("Clutch Situations")} ELSE {}
      [] OTHER ->
           IF matches = <<>> THEN {}
           ELSE IF RoundDiffSum > 3 * Len(matches) THEN {Plain("Dominant Form")}
           ELSE IF RoundDiffSum < -2 * Len(matches) THEN {Plain("Struggling Recently")}
           ELSE {}

\* the templates whose trigger holds
Fired == {k \in 1..7 : TemplateTitles(k) # {}}

\* the k-th smallest element of a set of numbers
RECURSIVE NthOf(_, _)
NthOf(S, n) ==
    LET least == CHOOSE x \in S : \A y \in S : x <= y
    IN IF n = 1 THEN least ELSE NthOf(S \ {least}, n - 1)

\* C22: the insights are, in template order 1..7, one entry for each template
\* whose trigger holds and none for the others, so at most 7; of the two
\* alternatives of template 1 and of template 7 at most one appears; template 3
\* names a map of minimum win rate among those under 40% on at least 2 games and
\* template 4 a map of maximum win rate among those over 70% on at least 2 games.
C22_InsightsInTemplateOrder ==
    tactical_insights # <<>> =>
        LET insights == tactical_insights[1] IN
        /\ Len(insights) = Cardinality(Fired)
        /\ \A j \in 1..Len(insights) :
              insights[j].title \in TemplateTitles(NthOf(Fired, j))

\* C22 witness: two maps under 40% of which the second is the weaker one and is
\* named, after the K/D insight and before the insights on close games and on
\* the round differential
C22_Witness ==
    /\ tactical_insights # <<>>
    /\ Cardinality(WeakPositions) = 2
    /\ ~RateAtMost(1, 2)
    /\ {1, 3, 6, 7} \subseteq Fired
    /\ \E j \in 2..Len(tactical_insights[1]) :
          /\ tactical_insights[1][j].title
                = Text("Exploit {}", <<their_map_stats[2].map_name>>)
          /\ tactical_insights[1][j - 1].category \in {"OPENING", "KEY_PLAYER"}
          /\ tactical_insights[1][j + 1].category \in {"COMPOSITION", "MENTAL"}


-----------------------------------------------------------------------------
(* _aggregate_player_stats called on drawn match sequences *)

\* player records with an identifier, without one, with an identifier that is
\* another record's display name, with neither, and one player under two names
AggregateRosters ==
    {<<>>,
     <<PlayerMatchStats("p1", "aspas", "Jett", 20, 10, 5, 300, 180, 4, 1),
       PlayerMatchStats("", "Less", "Sova", 9, 12, 8, 150, 100, 1, 2)>>,
     <<PlayerMatchStats("p1", "ASPAS", "Raze", 12, 14, 3, 210, 140, 1, 3),
       PlayerMatchStats("Less", "tuyz", "Killjoy", 15, 15, 6, 200, 130, 0, 1)>>,
     <<PlayerMatchStats("", "Less", "Fade", 7, 9, 4, 120, 90, 2, 0),
       PlayerMatchStats("", "", "Omen", 3, 5, 1, 80, 60, 0, 2)>>}

AggregateMatches ==
    {Match("s1", <<>>, "Haven", 13, 4, won, roster) :
        won \in BOOLEAN, roster \in AggregateRosters}

InitAggregate ==
    /\ matches \in SeqsUpTo(AggregateMatches, MaxMatches)
    /\ player_aggregates = <<>>
    /\ their_map_stats = <<>>
    /\ our_team_stats = NoneStats
    /\ report = <<>>
    /\ veto_recommendations = <<>>
    /\ map_pool_matrix = <<>>
    /\ primary_threat = <<>>
    /\ player_behavior_profiles = <<>>
    /\ team_composition = <<>>
    /\ economy_tendency = <<>>
    /\ tactical_insights = <<>>
    /\ aggregated = <<>>
    /\ ServiceIdle
    /\ CacheIdle

AggregatePlayerStats ==
    /\ aggregated = <<>>
    /\ aggregated' = <<_aggregate_player_stats(matches)>>
    /\ UNCHANGED <<matches, our_team_stats, report, their_map_stats,
                   veto_recommendations, map_pool_matrix, player_aggregates,
                   primary_threat, player_behavior_profiles, team_composition,
                   economy_tendency, tactical_insights, service_vars, cache_vars>>

NextAggregate == AggregatePlayerStats

SpecAggregate == InitAggregate /\ [][NextAggregate]_vars

-----------------------------------------------------------------------------
(* Properties of the player aggregates *)

\* the player records of all matches, in order
RECURSIVE RecordsFrom(_)
RecordsFrom(i) ==
    IF i > Len(matches) THEN <<>> ELSE matches[i].player_stats \o RecordsFrom(i + 1)

AllRecords == RecordsFrom(1)

\* the identifier when non-empty, the display name otherwise
ResolvedKey(r) == IF r.player_id = "" THEN r.player_name ELSE r.player_id

\* the records filed under a key
RecordsOf(key) == SelectSeq(AllRecords, LAMBDA r : ResolvedKey(r) = key)

\* C23: each player record is keyed by its identifier when non-empty and by its
\* display name otherwise; the records of one key, from any matches, fold into
\* one aggregate whose games are their number and whose totals are their sums;
\* the games of all aggregates add up to the number of records, and an empty
\* input yields an empty mapping.
C23_OneAggregatePerKey ==
    aggregated # <<>> =>
        LET players == aggregated[1]
            keys == {ResolvedKey(AllRecords[i]) : i \in 1..Len(AllRecords)}
        IN /\ Len(players) = Cardinality(keys)
           /\ \A k \in keys :
                 \E i \in 1..Len(players) :
                     LET recs == RecordsOf(k) IN
                     /\ players[i].pid = k
                     /\ players[i].games = Len(recs)
                     /\ players[i].total_kills = SumSeq([j \in 1..Len(recs) |-> recs[j].kills])
                     /\ players[i].total_deaths = SumSeq([j \in 1..Len(recs) |-> recs[j].deaths])
                     /\ players[i].total_assists
                           = SumSeq([j \in 1..Len(recs) |-> recs[j].assists])
                     /\ players[i].total_acs = SumSeq([j \in 1..Len(recs) |-> recs[j].acs])
                     /\ players[i].total_adr = SumSeq([j \in 1..Len(recs) |-> recs[j].adr])
                     /\ players[i].total_first_bloods
                           = SumSeq([j \in 1..Len(recs) |-> recs[j].first_bloods])
                     /\ players[i].total_first_deaths
                           = SumSeq([j \in 1..Len(recs) |-> recs[j].first_deaths])
           /\ SumSeq([i \in 1..Len(players) |-> players[i].games]) = Len(AllRecords)
           /\ matches = <<>> => players = <<>>

\* C23 witness: a record without identifier named "Less" and a record with the
\* identifier "Less" from another match share one aggregate, next to the
\* aggregate of a record with neither identifier nor name
C23_Witness ==
    /\ aggregated # <<>>
    /\ \E i, j \in 1..Len(AllRecords) :
          /\ AllRecords[i].player_id = "" /\ AllRecords[i].player_name = "Less"
          /\ AllRecords[j].player_id = "Less"
    /\ \E i \in 1..Len(aggregated[1]) :
          /\ aggregated[1][i].pid = "Less"
          /\ aggregated[1][i].games >= 2
    /\ \E i \in 1..Len(aggregated[1]) : aggregated[1][i].pid = ""


-----------------------------------------------------------------------------
(* Properties of the playstyle tags *)

\* the tags in the order _determine_playstyle_tags considers them, with the
\* Lurker tag from the share `lurker` of lurk agents among the picks
TagSequence(data, primary_role, lurker) ==
    LET kills == data.total_kills
        deaths == Max(data.total_deaths, 1)
        static == AGENT_PLAYSTYLES(TopKey(data.agents))
    IN SubSeq(static, 1, Min(2, Len(static)))
       \o (IF 10 * kills > 13 * deaths THEN <<"High Fragging">>
           ELSE IF 10 * kills < 9 * deaths THEN <<"Utility Focus">> ELSE <<>>)
       \o (IF primary_role = "Duelist" /\ 10 * kills > 11 * deaths
           THEN <<"Entry Fragger">> ELSE <<>>)
       \o (IF lurker /\ kills > deaths THEN <<"Lurker">> ELSE <<>>)
       \o (IF primary_role \in {"Sentinel", "Controller"} /\ 10 * kills > 11 * deaths
           THEN <<"Clutch Potential">> ELSE <<>>)

\* the first four distinct elements of a sequence, in order
FirstFourDistinct(seq) ==
    LET kept == {i \in 1..Len(seq) : \A j \in 1..(i - 1) : seq[j] # seq[i]}
    IN [n \in 1..Min(4, Cardinality(kept)) |-> seq[NthOf(kept, n)]]

LurkPicks(data) == PicksIn(data.agents, {"Yoru", "Omen", "Cypher"})

\* the profile of every player with games carries the tags of TagSequence
TagsFollow(lurker(_)) ==
    player_behavior_profiles # <<>> =>
        \A i \in 1..Len(player_aggregates) :
            player_aggregates[i].games >= 1 =>
                \E j \in 1..Len(player_behavior_profiles[1]) :
                    LET profile == player_behavior_profiles[1][j] IN
                    /\ profile.name = player_aggregates[i].name
                    /\ profile.playstyle_tags
                          = FirstFourDistinct(TagSequence(player_aggregates[i],
                                                          profile.primary_role,
                                                          lurker(player_aggregates[i])))

\* C24 as claimed: the playstyle tags are the first four distinct tags of: the
\* top-2 static tags of the most-picked agent; "High Fragging" for K/D > 1.3 or
\* "Utility Focus" for K/D < 0.9; "Entry Fragger" for a Duelist with K/D > 1.1;
\* "Lurker" when at least 30% of the picks are lurk agents and K/D > 1.0;
\* "Clutch Potential" for a Sentinel or Controller with K/D > 1.1.
C24_Claimed_LurkerFrom30Percent ==
    TagsFollow(LAMBDA data : 10 * LurkPicks(data) >= 3 * SumValues(data.agents))

\* C24: the same sequence, with "Lurker" when more than 30% of the picks are
\* lurk agents and K/D > 1.0; a share of exactly 30% does not give the tag.
C24_LurkerAbove30Percent ==
    TagsFollow(LAMBDA data : 10 * LurkPicks(data) > 3 * SumValues(data.agents))

\* C24 witness: a player with K/D 1.2 whose picks are lurk agents for exactly
\* 30% and whose profile has no Lurker tag, and in the same mapping a player
\* with K/D 1.1 and lurk agents for 50% whose profile has it
C24_Witness ==
    /\ player_behavior_profiles # <<>>
    /\ \E i \in 1..Len(player_aggregates) :
          /\ 10 * LurkPicks(player_aggregates[i]) = 3 * SumValues(player_aggregates[i].agents)
          /\ player_aggregates[i].total_kills > player_aggregates[i].total_deaths
          /\ \E j \in 1..Len(player_behavior_profiles[1]) :
                /\ player_behavior_profiles[1][j].name = player_aggregates[i].name
                /\ \A t \in 1..Len(player_behavior_profiles[1][j].playstyle_tags) :
                      player_behavior_profiles[1][j].playstyle_tags[t] # "Lurker"
    /\ \E i \in 1..Len(player_aggregates) :
          /\ 10 * LurkPicks(player_aggregates[i]) > 3 * SumValues(player_aggregates[i].agents)
          /\ \E j \in 1..Len(player_behavior_profiles[1]) :
                /\ player_behavior_profiles[1][j].name = player_aggregates[i].name
                /\ \E t \in 1..Len(player_behavior_profiles[1][j].playstyle_tags) :
                      player_behavior_profiles[1][j].playstyle_tags[t] = "Lurker"


-----------------------------------------------------------------------------
(* Properties of Cache.cleanup_expired *)

\* C25: cleanup_expired removes exactly the entries whose expiry is strictly
\* earlier than the time of the call, returns the number of entries it removed,
\* and leaves every other entry, with its key, value and expiry, as it was.
C25_CleanupRemovesExpiredOnly ==
    (history # <<>> /\ history[1].op = "cleanup_expired") =>
        LET h == history[1]
            left == h.before
            kept == SelectSeq(h.locked, LAMBDA e : ~(e.expiry < h.t))
        IN /\ ~h.raised
           /\ left = kept
           /\ h.result = <<Len(h.locked) - Len(kept)>>

\* C25 witness: a cleanup called at 3600 removes the entry that expired at 0,
\* keeps the entry that expires at 3600 and returns 1
C25_Witness ==
    /\ history # <<>>
    /\ history[1].op = "cleanup_expired"
    /\ history[1].t = 3600
    /\ Len(history[1].locked) = 2
    /\ \E i \in 1..2 : history[1].locked[i].expiry = 0
    /\ Len(history[1].before) = 1
    /\ history[1].before[1].expiry = 3600
    /\ history[1].result = <<1>>


-----------------------------------------------------------------------------
(* Agreement of the sub-reports of one report *)

\* the canonical maps whose name equals `name` ignoring letter case
CanonicalOf(name) ==
    {ALL_MAPS[k] : k \in {i \in 1..Len(ALL_MAPS) : Lower(ALL_MAPS[i]) = Lower(name)}}

\* the recommendations of the report for a canonical map
VetoOf(map_name) ==
    {report[1].veto_recommendations[i].recommendation :
        i \in {j \in 1..Len(report[1].veto_recommendations) :
                  report[1].veto_recommendations[j].map_name = map_name}}

\* C26: in a report built from a non-empty match sequence, a canonical map named
\* by the insight "Avoid M" is recommended BAN or MUST_BAN and a canonical map
\* named by the insight "Exploit M" is recommended PICK or MUST_PICK, also when
\* the match data spell the map in another letter case.
C26_InsightsAgreeWithVeto ==
    (report # <<>> /\ matches # <<>>) =>
        \A i \in 1..Len(report[1].tactical_insights) :
            LET title == report[1].tactical_insights[i].title IN
            /\ title.template = "Avoid {}" =>
                  \A m \in CanonicalOf(title.args[1]) :
                      VetoOf(m) \subseteq {"BAN", "MUST_BAN"}
            /\ title.template = "Exploit {}" =>
                  \A m \in CanonicalOf(title.args[1]) :
                      VetoOf(m) \subseteq {"PICK", "MUST_PICK"}


\* C27: in a report built from a non-empty match sequence recommended_bans has
\* exactly 2 entries, and every entry other than "TBD" that names a canonical
\* map is recommended BAN or MUST_BAN by the veto recommendations of the report.
C27_RecommendedBansAreVetoBans ==
    (report # <<>> /\ matches # <<>>) =>
        /\ Len(report[1].recommended_bans) = 2
        /\ \A i \in 1..Len(report[1].recommended_bans) :
              report[1].recommended_bans[i] # "TBD" =>
                  \A m \in CanonicalOf(report[1].recommended_bans[i]) :
                      VetoOf(m) \subseteq {"BAN", "MUST_BAN"}


\* the matches played on a canonical map, ignoring the letter case of their name
MatchesOnIgnoringCase(map_name) ==
    {i \in 1..Len(matches) : Lower(matches[i].map_name) = Lower(map_name)}

\* C28: for every match sequence and every canonical map, the games_played of
\* the map's entry in the map pool matrix is the number of matches whose map
\* name equals the canonical name ignoring letter case, and its win_rate is
\* the wins over the games of exactly those matches.
C28_MatrixCountsAllSpellings ==
    (report # <<>> /\ matches # <<>>) =>
        \A i \in 1..Len(report[1].map_pool_matrix) :
            LET e == report[1].map_pool_matrix[i]
                on == MatchesOnIgnoringCase(e.map_name)
                wins == Cardinality({j \in on : matches[j].won})
            IN /\ e.games_played = Cardinality(on)
               /\ e.win_rate[1] * Max(Cardinality(on), 1) = wins * e.win_rate[2]


-----------------------------------------------------------------------------
(* The K/D insight without player data *)

\* C29: when the player aggregates are empty, _generate_tactical_insights emits
\* no insight based on the team K/D: neither "High Fragging Team" nor
\* "Vulnerable to Aggression" appears.
C29_NoKdInsightWithoutPlayers ==
    (tactical_insights # <<>> /\ player_aggregates = <<>>) =>
        \A i \in 1..Len(tactical_insights[1]) :
            tactical_insights[1][i].title
                \notin {Plain("High Fragging Team"), Plain("Vulnerable to Aggression")}


-----------------------------------------------------------------------------
(* Properties of the client's caching *)

\* the entry of key in cache c is still served at the present instant
LiveEntry(c, key) == \E i \in 1..Len(c) : c[i].key = key /\ now <= c[i].expiry

\* the value stored under key
StoredValue(c, key) == c[CHOOSE i \in 1..Len(c) : c[i].key = key].value

\* every entry of cache d is an entry of cache c
NothingWritten(c, d) == \A i \in 1..Len(d) : \E j \in 1..Len(c) : c[j] = d[i]

\* the answers the upstream may give to each query of the client
SearchAnswers == {tm[2] : tm \in TeamResponses}

TeamAnswers == {tm[1] : tm \in TeamResponses}

StateAnswers == {st[id] : st \in StateResponses, id \in SeriesIds}

\* a repeated query of the key is answered from the live entry, without a request
RepeatedCallServedFromCache ==
    /\ LiveEntry(team_cache, <<"team_search", "opponent", "all">>) =>
           \A r \in SearchAnswers :
               LET call == search_teams(team_cache, "Opponent", r, now) IN
               /\ call.sent = <<>>
               /\ call.value = StoredValue(team_cache, <<"team_search", "opponent", "all">>)
    /\ LiveEntry(team_cache, <<"team", TeamId>>) =>
           \A r \in TeamAnswers :
               LET call == get_team_by_id(team_cache, TeamId, r, now) IN
               /\ call.sent = <<>>
               /\ call.value = <<StoredValue(team_cache, <<"team", TeamId>>)>>
    /\ \A limit \in {10, 20} :
           LiveEntry(match_cache, <<"series", TeamId, limit>>) =>
               \A r \in ListResponses :
                   LET call == get_recent_series(match_cache, TeamId, limit, r, now) IN
                   /\ call.sent = <<>>
                   /\ call.value = StoredValue(match_cache, <<"series", TeamId, limit>>)
    /\ \A id \in SeriesIds :
           LiveEntry(series_cache, <<"series_state", id>>) =>
               \A r \in StateAnswers :
                   LET call == get_series_state(series_cache, id, r, now) IN
                   /\ call.sent = <<>>
                   /\ call.value = <<StoredValue(series_cache, <<"series_state", id>>)>>

\* a query whose upstream request fails leaves no new cache entry
FailedRequestWritesNothing ==
    /\ \A r \in SearchAnswers :
           _execute_query(r).raised =>
               NothingWritten(team_cache, search_teams(team_cache, "Opponent", r, now).cache)
    /\ \A r \in TeamAnswers :
           _execute_query(r).raised =>
               NothingWritten(team_cache, get_team_by_id(team_cache, TeamId, r, now).cache)
    /\ \A r \in ListResponses, limit \in {10, 20} :
           _execute_query(r).raised =>
               NothingWritten(match_cache,
                              get_recent_series(match_cache, TeamId, limit, r, now).cache)
    /\ \A r \in StateAnswers, id \in SeriesIds :
           _execute_query(r).raised =>
               NothingWritten(series_cache,
                              get_series_state(series_cache, id, r, now).cache)

\* C30: once a client query (search_teams, get_team_by_id, get_recent_series,
\* get_series_state) has stored its result in the cache, a repeated call with the
\* same arguments before the entry expires returns the stored result and sends no
\* upstream request, whatever the stored value is, an empty list included; and a
\* query whose upstream request fails writes no cache entry.
C30_RepeatedQueriesServedFromCache ==
    /\ RepeatedCallServedFromCache
    /\ FailedRequestWritesNothing

====
